---- MODULE Spec2Model ----
(***************************************************************************)
(* A model of kvclient.Client, the Kilovolt websocket client                *)
(* (src/client.go, the latest version of the file: lines 306-861).          *)
(*                                                                         *)
(* The client owns three concurrent maps (requests, keysubs, prefixsubs),  *)
(* one write mutex and one websocket.  One goroutine, started by           *)
(* ConnectToWebsocket, reads frames and routes each message either to the  *)
(* response channel of a pending request or to the listener channels of    *)
(* the matching subscriptions.  Caller goroutines run the public           *)
(* operations.  Every map operation (Get, Set, Has, Remove, IterBuffered)  *)
(* is atomic by itself; nothing makes a sequence of them atomic, so each   *)
(* is a step of its own here.  Go slices are modelled as headers           *)
(* (array, len) over shared backing arrays kept in heap, because           *)
(* UnsubscribeKey removes in place and SubscribeKey appends to the stored  *)
(* slice.                                                                  *)
(***************************************************************************)
EXTENDS Integers, Sequences, FiniteSets, TLC

\* ------------------------------------------------------------------ bounds
\* Public calls begun by all caller goroutines together.
MaxCalls == 3
\* Pushes the server sends.
MaxPush == 1
\* Requests the server rejects (ok: false).
MaxErr == 1
\* Frame writes that fail.
MaxSendErr == 1
\* Public calls of the single caller of SpecSeq.
MaxSeqCalls == 4
\* Public calls of the single caller of SpecPush.
MaxPushCalls == 3
\* Connections a client dials under SpecConn, and frames a connection
\* holds unread.
MaxConns == 3
MaxConnFrames == 1
\* Public calls of the caller of SpecParse, and the pushes and malformed
\* messages it receives.
MaxParseCalls == 2
MaxParsePush == 3
\* Public calls of the callers of SpecFault.
MaxFaultCalls == 2
\* Pushes the server sends under SpecSlow, and the calls of its caller.
MaxSlowPush == 12
MaxSlowCalls == 2
\* Pushes the server has sent that the client has not read yet.
MaxInFlight == 2
\* Public calls of the caller of SpecStray, and the pushes and stray
\* messages it receives.
MaxStrayCalls == 2
MaxStray == 2
\* Public calls on the client NewClient returned under SpecAuth, and the
\* public calls of the caller of SpecKV.
MaxAuthCalls == 2
MaxKVCalls == 3
\* Public calls of the two callers of SpecLive, and the pushes it receives.
MaxLiveCalls == 2
MaxLivePush == 1
\* Public calls of the caller of SpecFrame, the pushes it receives, and the
\* messages of one frame.
MaxFrameCalls == 2
MaxFramePush == 3
MaxFrameLen == 2
\* Public calls of the single caller of SpecSeqFault.
MaxSeqFaultCalls == 3

\* The caller goroutines, the identifiers rand.Int63 may return, the
\* selectors callers subscribe to and the keys the server pushes.
Callers == {1, 2}
Rids == {1, 2}
Sels == {<<>>, <<"s">>, <<"s", "A">>}
PushKeys == {<<"s">>, <<"s", "A">>}
Regs == {"key", "prefix"}

\* make(chan KeyValuePair, 10)
ChanCap == 10

VARIABLES
  requests,   \* s.requests: rid -> response channel (0: no entry)
  subs,       \* s.keysubs / s.prefixsubs: registry -> selector -> slice header
  heap,       \* backing arrays of the stored slices
  chanbuf,    \* listener channels: the buffered pairs of each
  mu,         \* s.mu: the caller holding it (0: free)
  ws,         \* the connection: "open" | "failed"
  dpc,        \* the dispatch goroutine's position
  dframe,     \* submessages of the frame not yet processed (the first is current)
  dch,        \* chn of the response branch
  dsl,        \* the slice being ranged over in the push branch
  didx,       \* the range index
  dsnap,      \* the IterBuffered snapshot of prefixsubs
  drem,       \* selectors of the snapshot not yet visited
  pc,         \* each caller's position
  cur,        \* each caller's call in progress (its locals)
  last,       \* each caller's last finished call (what it returned)
  ncalls,     \* calls begun
  nreq,       \* response channels made
  wire,       \* requests written and not yet handled by the server
  inbox,      \* frames sent by the server and not yet read
  srvsub,     \* the server's subscriptions for this connection
  npush, nerr, nsenderr,
  sent,       \* history: requests written, per command, registry and selector
  dg,         \* history: the push being fanned out, or the last one
  wsconn,     \* s.ws: the connection it points to (0: nil)
  nconn,      \* connections dialed
  loops,      \* the goroutines started by ConnectToWebsocket
  cin,        \* frames each connection holds to be read
  closed,     \* connections closed
  client,     \* NewClient: where it is, and the Password option it was given
  hubauth,    \* the hub: this connection has authenticated
  store       \* the hub: the value of each key ("": unset)

vars == <<requests, subs, heap, chanbuf, mu, ws, dpc, dframe, dch, dsl, didx,
          dsnap, drem, pc, cur, last, ncalls, nreq, wire, inbox, srvsub,
          npush, nerr, nsenderr, sent, dg,
          wsconn, nconn, loops, cin, closed, client, hubauth, store>>

\* The client's connections and the goroutines reading them.
connvars == <<wsconn, nconn, loops, cin, closed>>

\* The construction of the client, and the hub's side of the session.
sessvars == <<client, hubauth, store>>

\* ------------------------------------------------------------- data types
\* A nil slice, and the value standing for "the map has no entry".
NilSlice == [arr |-> 0, len |-> 0]
NoEntry == [arr |-> 0, len |-> -1]

\* A protocol message as the two Unmarshal calls of the loop see it.
\* (data: the payload of a response; code, details: the fields of an error;
\* envOK, pushOK, errOK: whether it parses as kv.Response, kv.Push, kv.Error.)
NoMsg == [rid |-> 0, ctype |-> "", ok |-> FALSE, key |-> <<>>, val |-> 0,
          envOK |-> FALSE, pushOK |-> FALSE,
          data |-> "", code |-> "", details |-> "", errOK |-> FALSE]
ResponseMsg(rid, ok) == [NoMsg EXCEPT !.rid = rid, !.ctype = "response",
                                      !.ok = ok, !.envOK = TRUE, !.pushOK = TRUE,
                                      !.errOK = TRUE]

\* kv.Response{}, and the kv.Response a message unmarshals into.
NoResponse == [ok |-> FALSE, rid |-> 0, ctype |-> "", data |-> ""]
ParseResponse(msg) ==
  [ok |-> msg.ok, rid |-> msg.rid, ctype |-> msg.ctype, data |-> msg.data]

\* The error codes and details a server answers with, and the data of its
\* answer to an authentication request (a challenge that decodes, or not).
ErrPairs == {<<"E1", "D1">>, <<"E2", "D2">>}
Challenges == {"challenge", "notbase64"}
PushMsg(key, val) == [NoMsg EXCEPT !.ctype = "push", !.key = key, !.val = val,
                                   !.envOK = TRUE, !.pushOK = TRUE]

KeyValuePair(key, val) == [Key |-> key, Value |-> val]

\* A comparison of the whole key where strings.HasPrefix is meant.
HasPrefixWholeKey(s, prefix) == s = prefix

\* strings.HasPrefix
HasPrefix(s, prefix) ==
  /\ Len(prefix) <= Len(s)
  /\ SubSeq(s, 1, Len(prefix)) = prefix

\* cap(slice)
Cap(h, sl) == IF sl.arr = 0 THEN 0 ELSE Len(h[sl.arr])

\* The elements of a slice.
Elems(h, sl) == IF sl.len <= 0 THEN <<>> ELSE SubSeq(h[sl.arr], 1, sl.len)

\* The listeners of a selector's entry, in order (none when there is no entry).
EntriesIn(s, h, reg, sel) == Elems(h, s[reg][sel])
Entries(reg, sel) == EntriesIn(subs, heap, reg, sel)

Range(f) == {f[i] : i \in DOMAIN f}

\* append(subs, chn): in place when the array has room, else into a new
\* array of twice the capacity.
AppendSlice(h, sl, chn) ==
  IF sl.len < Cap(h, sl)
  THEN [heap |-> [h EXCEPT ![sl.arr][sl.len + 1] = chn],
        slice |-> [arr |-> sl.arr, len |-> sl.len + 1]]
  ELSE LET newcap == IF Cap(h, sl) = 0 THEN 1 ELSE 2 * Cap(h, sl)
           arr == [i \in 1..newcap |->
                     IF i <= sl.len THEN h[sl.arr][i]
                     ELSE IF i = sl.len + 1 THEN chn ELSE 0]
       IN [heap |-> Append(h, arr),
           slice |-> [arr |-> Len(h) + 1, len |-> sl.len + 1]]

\* A removal that always drops the first element, whatever idx is.
RemoveAtFirst(a, m, idx) ==
  [i \in 1..Len(a) |-> IF i <= m - 1 THEN a[i + 1] ELSE a[i]]

\* chans = append(chans[:idx], chans[idx+1:]...) on an array a whose slice
\* has length m: the elements after idx move down by one, in place.
RemoveAt(a, m, idx) ==
  [i \in 1..Len(a) |-> IF i >= idx + 1 /\ i <= m - 1 THEN a[i + 1] ELSE a[i]]

\* The loop of UnsubscribeKey / UnsubscribePrefix over the n elements of the
\* slice it read, from index idx on: a is the array, m the current length
\* of chans.  chans[idx+1:] panics when idx+1 > len(chans).
RECURSIVE RemoveLoop(_, _, _, _, _, _)
RemoveLoop(a, m, n, idx, chn, found) ==
  IF idx >= n THEN [a |-> a, len |-> m, found |-> found, panic |-> FALSE]
  ELSE IF a[idx + 1] = chn
       THEN IF idx + 1 > m
            THEN [a |-> a, len |-> m, found |-> found, panic |-> TRUE]
            ELSE RemoveLoop(RemoveAt(a, m, idx), m - 1, n, idx + 1, chn, TRUE)
       ELSE RemoveLoop(a, m, n, idx + 1, chn, found)

\* needsAPISubscription without the test of the length: an emptied entry
\* passes for a subscribed one.
NeedsAPISubscriptionNoEntryOnly(ok, sl) == ~ok

\* needsAPISubscription := !ok || len(subs) < 1
NeedsAPISubscription(ok, sl) == ~ok \/ sl.len < 1

\* A caller's call: its arguments and locals, then what the history keeps
\* of it (pre/post: the entry's listeners when the call read the registry
\* and when it returned; nsent: requests it wrote; afterSub/base: the call
\* unsubscribes the slot the caller's previous call subscribed, and the
\* entry's listeners before that Subscribe; mrresp/mrerr: what its last
\* makeRequest returned; first: what the first makeRequest of an
\* Authenticate returned; pw, hash, ctor: the password of an Authenticate,
\* the digest it sends, and whether NewClient called it; val: the data of
\* a SetKey; ret: the string a GetKey returns; afterSet/want: the call
\* reads the key the caller's previous call, a successful SetKey, wrote,
\* and the value written; listening: the listeners registered for the key
\* when a SetKey began).
NoCall == [op |-> "none", reg |-> "key", sel |-> <<>>, chn |-> 0,
           subs |-> NilSlice, needsAPI |-> FALSE, cmd |-> "none",
           rid |-> 0, ch |-> 0, msg |-> NoMsg, err |-> "nil",
           pre |-> <<>>, post |-> <<>>, nsent |-> 0,
           afterSub |-> FALSE, base |-> <<>>,
           mrresp |-> NoResponse, mrerr |-> <<"nil">>, first |-> "none",
           pw |-> "", hash |-> <<>>, ctor |-> FALSE, val |-> "", ret |-> "",
           afterSet |-> FALSE, want |-> "", listening |-> {}]

\* The requests the history counts: <<command, registry, selector>>.
SentKeys == {"sub", "unsub"} \X Regs \X Sels

NoPush == [active |-> FALSE, done |-> FALSE, key |-> <<>>, pre |-> {},
           got |-> <<>>, mut |-> FALSE]

\* p is an initial segment of key.
IsInitialSegment(p, key) == \E n \in 0..Len(key) : p = SubSeq(key, 1, n)

\* The listeners a push for key must reach: those of the exact key and those
\* of every selector of the prefix registry that is an initial segment of it.
MatchingIn(s, h, key) ==
  Range(EntriesIn(s, h, "key", key))
    \cup UNION {Range(EntriesIn(s, h, "prefix", p)) :
                  p \in {q \in Sels : IsInitialSegment(q, key)}}

\* How many times x occurs in the sequence q.
Count(q, x) == Cardinality({i \in DOMAIN q : q[i] = x})
MatchingListeners(key) == MatchingIn(subs, heap, key)

\* ------------------------------------------------------------------- Init
\* The keys and the values of SetKey and GetKey, and the password, the
\* challenge and the salt of the hub.
KVKeys == {<<"s">>, <<"s", "A">>}
KVVals == {"v1", "v2"}
HubPassword == "pw"
Passwords == {"", "pw", "bad"}

\* The client after ConnectToWebsocket has returned nil: connected, the
\* dispatch goroutine reading, the three maps empty; the hub holds no
\* value and no subscription.
Connected ==
  /\ requests = [r \in Rids |-> 0]
  /\ subs = [g \in Regs |-> [s \in Sels |-> NoEntry]]
  /\ heap = <<>>
  /\ chanbuf = <<>>
  /\ mu = 0
  /\ ws = "open"
  /\ dpc = "read"
  /\ dframe = <<>>
  /\ dch = 0
  /\ dsl = NilSlice
  /\ didx = 0
  /\ dsnap = [s \in Sels |-> NoEntry]
  /\ drem = {}
  /\ pc = [c \in Callers |-> "idle"]
  /\ cur = [c \in Callers |-> NoCall]
  /\ last = [c \in Callers |-> NoCall]
  /\ ncalls = 0
  /\ nreq = 0
  /\ wire = <<>>
  /\ inbox = <<>>
  /\ srvsub = [g \in Regs |-> {}]
  /\ npush = 0
  /\ nerr = 0
  /\ nsenderr = 0
  /\ sent = [x \in SentKeys |-> 0]
  /\ dg = NoPush
  /\ wsconn = 1
  /\ nconn = 1
  /\ loops = <<[st |-> "top", on |-> 0]>>
  /\ cin = [k \in 1..MaxConns |-> 0]
  /\ closed = {}
  /\ hubauth = FALSE
  /\ store = [k \in KVKeys |-> ""]

\* The client NewClient returns when it is given no password.
Init ==
  /\ Connected
  /\ client = [st |-> "ok", pw |-> ""]

\* NewClient after its ConnectToWebsocket, before it looks at the password.
InitNewClient ==
  /\ Connected
  /\ client = [st |-> "new", pw |-> ""]

\* ---------------------------------------------------------------- callers
\* A call returns err: the caller is idle again, or back in the NewClient
\* that made the call, and its record is kept.  s2, h2 are the registry and
\* the heap as the step leaves them.
Return(c, r, err, s2, h2) ==
  /\ pc' = [pc EXCEPT ![c] = IF r.ctor THEN "nc_ret" ELSE "idle"]
  /\ cur' = [cur EXCEPT ![c] = NoCall]
  /\ last' = [last EXCEPT ![c] =
               [r EXCEPT !.err = err, !.post = EntriesIn(s2, h2, r.reg, r.sel)]]

\* A registry write while a push is being fanned out.
NoteMutation == dg' = IF dg.active THEN [dg EXCEPT !.mut = TRUE] ELSE dg

\* SubscribeKey / SubscribePrefix, up to the Get: make the channel, read
\* the selector's entry, decide needsAPISubscription.
SubscribeGet(c, reg, sel, lim) ==
  /\ pc[c] = "idle"
  /\ ncalls < lim
  /\ LET data == subs[reg][sel]
         ok == data.len >= 0
         sl == IF ok THEN data ELSE NilSlice
     IN cur' = [cur EXCEPT ![c] =
                 [NoCall EXCEPT !.op = "Subscribe", !.reg = reg, !.sel = sel,
                                !.chn = Len(chanbuf) + 1, !.subs = sl,
                                !.needsAPI = NeedsAPISubscription(ok, sl),
                                !.cmd = "sub",
                                !.pre = Entries(reg, sel)]]
  /\ chanbuf' = Append(chanbuf, <<>>)
  /\ pc' = [pc EXCEPT ![c] = "sub_set"]
  /\ ncalls' = ncalls + 1
  /\ UNCHANGED <<connvars, sessvars>>
  /\ UNCHANGED <<requests, subs, heap, mu, ws, dpc, dframe, dch, dsl, didx,
                 dsnap, drem, last, nreq, wire, inbox, srvsub, npush, nerr,
                 nsenderr, sent, dg>>

SubscribeKey(c, sel, lim) == SubscribeGet(c, "key", sel, lim)
SubscribePrefix(c, sel, lim) == SubscribeGet(c, "prefix", sel, lim)

\* A Set that stores the appended slice under the selector in both
\* registries.
SubscribeSetBothRegistries(c) ==
  /\ pc[c] = "sub_set"
  /\ LET r == cur[c]
         ap == AppendSlice(heap, r.subs, r.chn)
     IN /\ heap' = ap.heap
        /\ subs' = [g \in Regs |-> [subs[g] EXCEPT ![r.sel] = ap.slice]]
        /\ IF r.needsAPI
           THEN /\ pc' = [pc EXCEPT ![c] = "mr_gen"]
                /\ UNCHANGED <<cur, last>>
           ELSE Return(c, r, "nil", subs', heap')
  /\ NoteMutation
  /\ UNCHANGED <<connvars, sessvars>>
  /\ UNCHANGED <<requests, chanbuf, mu, ws, dpc, dframe, dch, dsl, didx,
                 dsnap, drem, ncalls, nreq, wire, inbox, srvsub, npush, nerr,
                 nsenderr, sent>>

\* s.keysubs.Set(key, append(subs, chn)), then the request or the return.
SubscribeSet(c) ==
  /\ pc[c] = "sub_set"
  /\ LET r == cur[c]
         ap == AppendSlice(heap, r.subs, r.chn)
     IN /\ heap' = ap.heap
        /\ subs' = [subs EXCEPT ![r.reg][r.sel] = ap.slice]
        /\ IF r.needsAPI
           THEN /\ pc' = [pc EXCEPT ![c] = "mr_gen"]
                /\ UNCHANGED <<cur, last>>
           ELSE Return(c, r, "nil", subs', heap')
  /\ NoteMutation
  /\ UNCHANGED <<connvars, sessvars>>
  /\ UNCHANGED <<requests, chanbuf, mu, ws, dpc, dframe, dch, dsl, didx,
                 dsnap, drem, ncalls, nreq, wire, inbox, srvsub, npush, nerr,
                 nsenderr, sent>>

\* UnsubscribeKey / UnsubscribePrefix, up to the Get: no entry returns nil.
UnsubscribeGet(c, reg, sel, chn, lim) ==
  /\ pc[c] = "idle"
  /\ ncalls < lim
  /\ LET data == subs[reg][sel]
         ok == data.len >= 0
         p == last[c]
         r == [NoCall EXCEPT !.op = "Unsubscribe", !.reg = reg, !.sel = sel,
                             !.chn = chn, !.subs = data, !.cmd = "unsub",
                             !.pre = Entries(reg, sel),
                             !.afterSub = /\ p.op = "Subscribe" /\ p.err = "nil"
                                          /\ p.reg = reg /\ p.sel = sel
                                          /\ p.chn = chn,
                             !.base = p.pre]
     IN IF ~ok
        THEN Return(c, r, "nil", subs, heap)
        ELSE /\ cur' = [cur EXCEPT ![c] = r]
             /\ pc' = [pc EXCEPT ![c] = "unsub_loop"]
             /\ UNCHANGED last
  /\ ncalls' = ncalls + 1
  /\ UNCHANGED <<connvars, sessvars>>
  /\ UNCHANGED <<requests, subs, heap, chanbuf, mu, ws, dpc, dframe, dch, dsl,
                 didx, dsnap, drem, nreq, wire, inbox, srvsub, npush, nerr,
                 nsenderr, sent, dg>>

UnsubscribeKey(c, sel, chn, lim) == UnsubscribeGet(c, "key", sel, chn, lim)
UnsubscribePrefix(c, sel, chn, lim) == UnsubscribeGet(c, "prefix", sel, chn, lim)

\* The removal loop with its Set, then ErrSubscriptionNotFound, the
\* request for an emptied entry, or nil.  A panic ends the process: every
\* goroutine stops.
UnsubscribeLoop(c) ==
  /\ pc[c] = "unsub_loop"
  /\ LET r == cur[c]
         res == RemoveLoop(heap[r.subs.arr], r.subs.len, r.subs.len, 0, r.chn, FALSE)
     IN IF r.subs.len = 0
        THEN /\ Return(c, r, "ErrSubscriptionNotFound", subs, heap)
             /\ UNCHANGED <<subs, heap, dg, dpc>>
        ELSE /\ heap' = [heap EXCEPT ![r.subs.arr] = res.a]
             /\ subs' = IF res.found
                        THEN [subs EXCEPT ![r.reg][r.sel] =
                                [arr |-> r.subs.arr, len |-> res.len]]
                        ELSE subs
             /\ IF res.found THEN NoteMutation ELSE UNCHANGED dg
             /\ IF res.panic
                THEN /\ pc' = [k \in Callers |-> "panic"]
                     /\ dpc' = "panic"
                     /\ UNCHANGED <<cur, last>>
                ELSE /\ UNCHANGED dpc
                     /\ IF ~res.found
                        THEN Return(c, r, "ErrSubscriptionNotFound", subs', heap')
                        ELSE IF res.len < 1
                        THEN /\ pc' = [pc EXCEPT ![c] = "mr_gen"]
                             /\ UNCHANGED <<cur, last>>
                        ELSE Return(c, r, "nil", subs', heap')
  /\ UNCHANGED <<connvars, sessvars>>
  /\ UNCHANGED <<requests, chanbuf, mu, ws, dframe, dch, dsl, didx,
                 dsnap, drem, ncalls, nreq, wire, inbox, srvsub, npush, nerr,
                 nsenderr, sent>>

\* Authenticate: the first makeRequest, kv.CmdAuthRequest.
Authenticate(c, lim) ==
  /\ pc[c] = "idle"
  /\ ncalls < lim
  /\ cur' = [cur EXCEPT ![c] = [NoCall EXCEPT !.op = "Authenticate",
                                              !.cmd = "auth_request"]]
  /\ pc' = [pc EXCEPT ![c] = "mr_gen"]
  /\ ncalls' = ncalls + 1
  /\ UNCHANGED <<connvars, sessvars>>
  /\ UNCHANGED <<requests, subs, heap, chanbuf, mu, ws, dpc, dframe, dch, dsl,
                 didx, dsnap, drem, last, nreq, wire, inbox, srvsub, npush,
                 nerr, nsenderr, sent, dg>>

\* An Authenticate that goes on to its second request whatever the first
\* returned.
AfterRequestAuthAlways(c, r, err) ==
  IF r.op = "Authenticate" /\ r.cmd = "auth_request"
  THEN /\ cur' = [cur EXCEPT ![c] = [r EXCEPT !.first = err,
                                              !.cmd = "auth_challenge",
                                              !.msg = NoMsg]]
       /\ pc' = [pc EXCEPT ![c] = "mr_gen"]
       /\ UNCHANGED last
  ELSE Return(c, r, err, subs, heap)

\* makeRequest has returned err to the operation that called it, whose
\* record is r: Authenticate goes on after a first request without error,
\* GetKey returns resp.Data.(string) or "" with the error, every other
\* operation returns err (with its slot, for a Subscribe).
AfterRequest(c, r, err) ==
  IF r.op = "Authenticate" /\ r.cmd = "auth_request"
  THEN IF err = "nil"
       THEN /\ cur' = [cur EXCEPT ![c] = [r EXCEPT !.first = err]]
            /\ pc' = [pc EXCEPT ![c] = "auth_hash"]
            /\ UNCHANGED last
       ELSE Return(c, [r EXCEPT !.first = err], err, subs, heap)
  ELSE IF r.op = "GetKey"
  THEN Return(c, [r EXCEPT !.ret = IF err = "nil" THEN r.mrresp.data ELSE ""],
              err, subs, heap)
  ELSE Return(c, r, err, subs, heap)

\* The data a response to kv.CmdAuthRequest may carry: a map with a
\* base64 challenge and a base64 salt; one whose challenge, or salt, is a
\* string that is not base64; one without the challenge, or without the
\* salt; something that is no map.
AuthData == {"challenge", "notbase64", "saltnotbase64", "nochallenge",
             "nosalt", "notamap"}

\* Lines 396-406 on such data: the type assertions res.Data.(map...),
\* data["challenge"].(string) and data["salt"].(string) have no comma-ok
\* form and panic; DecodeString returns an error.
DecodeAuthData(d) ==
  IF d = "challenge" THEN "ok"
  ELSE IF d \in {"notamap", "nochallenge", "nosalt"} THEN "panic"
  ELSE "err"

\* hmac.New(sha256.New, append([]byte(password), saltBytes...)) over the
\* challenge bytes.
Hmac(password, salt, challenge) == <<"hmac", password, salt, challenge>>

\* Authenticate between its requests: challenge and salt are decoded, an
\* error of the decoding is returned, a failed type assertion ends the
\* process; the hash is made and the second makeRequest,
\* kv.CmdAuthChallenge, begins.
AuthChallenge(c) ==
  /\ pc[c] = "auth_hash"
  /\ LET d == DecodeAuthData(cur[c].mrresp.data)
     IN IF d = "panic"
        THEN /\ pc' = [k \in Callers |-> "panic"]
             /\ dpc' = "panic"
             /\ UNCHANGED <<cur, last>>
        ELSE /\ UNCHANGED dpc
             /\ IF d = "err"
                THEN Return(c, cur[c], "decodeerr", subs, heap)
                ELSE /\ cur' = [cur EXCEPT ![c].cmd = "auth_challenge",
                                           ![c].msg = NoMsg,
                                           ![c].rid = 0, ![c].ch = 0,
                                           ![c].hash = Hmac(cur[c].pw, "salt", "chal")]
                     /\ pc' = [pc EXCEPT ![c] = "mr_gen"]
                     /\ UNCHANGED last
  /\ UNCHANGED <<connvars, sessvars>>
  /\ UNCHANGED <<requests, subs, heap, chanbuf, mu, ws, dframe, dch, dsl,
                 didx, dsnap, drem, ncalls, nreq, wire, inbox, srvsub, npush,
                 nerr, nsenderr, sent, dg>>

\* NewClient from line 378 on: without a password the client is returned;
\* with one, Authenticate is called.
NewClient(c, pw) ==
  /\ client.st = "new"
  /\ pc[c] = "idle"
  /\ IF pw = ""
     THEN /\ client' = [st |-> "ok", pw |-> pw]
          /\ UNCHANGED <<pc, cur>>
     ELSE /\ client' = [st |-> "auth", pw |-> pw]
          /\ cur' = [cur EXCEPT ![c] = [NoCall EXCEPT !.op = "Authenticate",
                                                      !.cmd = "auth_request",
                                                      !.pw = pw, !.ctor = TRUE]]
          /\ pc' = [pc EXCEPT ![c] = "mr_gen"]
  /\ UNCHANGED connvars
  /\ UNCHANGED <<hubauth, store>>
  /\ UNCHANGED <<requests, subs, heap, chanbuf, mu, ws, dpc, dframe, dch, dsl,
                 didx, dsnap, drem, last, ncalls, nreq, wire, inbox, srvsub,
                 npush, nerr, nsenderr, sent, dg>>

\* NewClient after Authenticate: nil and the error, or the client.
NewClientReturn(c) ==
  /\ pc[c] = "nc_ret"
  /\ client' = [client EXCEPT !.st = IF last[c].err = "nil" THEN "ok" ELSE "nil"]
  /\ pc' = [pc EXCEPT ![c] = "idle"]
  /\ UNCHANGED connvars
  /\ UNCHANGED <<hubauth, store>>
  /\ UNCHANGED <<requests, subs, heap, chanbuf, mu, ws, dpc, dframe, dch, dsl,
                 didx, dsnap, drem, cur, last, ncalls, nreq, wire, inbox,
                 srvsub, npush, nerr, nsenderr, sent, dg>>

\* SetKey: makeRequest of kv.CmdWriteKey with the key and the data.
SetKey(c, key, data, lim) ==
  /\ client.st = "ok"
  /\ pc[c] = "idle"
  /\ ncalls < lim
  /\ cur' = [cur EXCEPT ![c] = [NoCall EXCEPT !.op = "SetKey", !.sel = key,
                                              !.cmd = "kset", !.val = data,
                                              !.listening = MatchingListeners(key)]]
  /\ pc' = [pc EXCEPT ![c] = "mr_gen"]
  /\ ncalls' = ncalls + 1
  /\ UNCHANGED <<connvars, sessvars>>
  /\ UNCHANGED <<requests, subs, heap, chanbuf, mu, ws, dpc, dframe, dch, dsl,
                 didx, dsnap, drem, last, nreq, wire, inbox, srvsub, npush,
                 nerr, nsenderr, sent, dg>>

\* GetKey: makeRequest of kv.CmdReadKey with the key.
GetKey(c, key, lim) ==
  /\ client.st = "ok"
  /\ pc[c] = "idle"
  /\ ncalls < lim
  /\ LET p == last[c]
     IN cur' = [cur EXCEPT ![c] =
                 [NoCall EXCEPT !.op = "GetKey", !.sel = key, !.cmd = "kget",
                                !.afterSet = /\ p.op = "SetKey" /\ p.err = "nil"
                                             /\ p.sel = key,
                                !.want = p.val]]
  /\ pc' = [pc EXCEPT ![c] = "mr_gen"]
  /\ ncalls' = ncalls + 1
  /\ UNCHANGED <<connvars, sessvars>>
  /\ UNCHANGED <<requests, subs, heap, chanbuf, mu, ws, dpc, dframe, dch, dsl,
                 didx, dsnap, drem, last, nreq, wire, inbox, srvsub, npush,
                 nerr, nsenderr, sent, dg>>

\* makeRequest: draw identifiers until one is not in the table.
MakeRequestGen(c) ==
  /\ pc[c] = "mr_gen"
  /\ \E rid \in Rids :
       /\ requests[rid] = 0
       /\ cur' = [cur EXCEPT ![c].rid = rid]
  /\ pc' = [pc EXCEPT ![c] = "mr_set"]
  /\ UNCHANGED <<connvars, sessvars>>
  /\ UNCHANGED <<requests, subs, heap, chanbuf, mu, ws, dpc, dframe, dch, dsl,
                 didx, dsnap, drem, last, ncalls, nreq, wire, inbox, srvsub,
                 npush, nerr, nsenderr, sent, dg>>

\* responseChannel := make(chan string); s.requests.Set(rid, responseChannel)
MakeRequestSet(c) ==
  /\ pc[c] = "mr_set"
  /\ nreq' = nreq + 1
  /\ cur' = [cur EXCEPT ![c].ch = nreq + 1]
  /\ requests' = [requests EXCEPT ![cur[c].rid] = nreq + 1]
  /\ pc' = [pc EXCEPT ![c] = "send_lock"]
  /\ UNCHANGED <<connvars, sessvars>>
  /\ UNCHANGED <<subs, heap, chanbuf, mu, ws, dpc, dframe, dch, dsl, didx,
                 dsnap, drem, last, ncalls, wire, inbox, srvsub, npush, nerr,
                 nsenderr, sent, dg>>

\* A send that writes without waiting for the lock.
SendLockNotWaiting(c) ==
  /\ pc[c] = "send_lock"
  /\ mu' = c
  /\ pc' = [pc EXCEPT ![c] = "send_write"]
  /\ UNCHANGED <<connvars, sessvars>>
  /\ UNCHANGED <<requests, subs, heap, chanbuf, ws, dpc, dframe, dch, dsl,
                 didx, dsnap, drem, cur, last, ncalls, nreq, wire, inbox,
                 srvsub, npush, nerr, nsenderr, sent, dg>>

\* send: s.mu.Lock()
SendLock(c) ==
  /\ pc[c] = "send_lock"
  /\ mu = 0
  /\ mu' = c
  /\ pc' = [pc EXCEPT ![c] = "send_write"]
  /\ UNCHANGED <<connvars, sessvars>>
  /\ UNCHANGED <<requests, subs, heap, chanbuf, ws, dpc, dframe, dch, dsl,
                 didx, dsnap, drem, cur, last, ncalls, nreq, wire, inbox,
                 srvsub, npush, nerr, nsenderr, sent, dg>>

\* A write that puts the key where the data belongs: the request carries
\* the key as its data.
SendWriteKeyAsData(c) ==
  /\ pc[c] = "send_write"
  /\ ws = "open"
  /\ LET r == cur[c]
     IN /\ wire' = Append(wire, [cmd |-> r.cmd, reg |-> r.reg, sel |-> r.sel,
                                 rid |-> r.rid, val |-> "key", hash |-> r.hash])
        /\ sent' = IF <<r.cmd, r.reg, r.sel>> \in SentKeys
                   THEN [sent EXCEPT ![<<r.cmd, r.reg, r.sel>>] = @ + 1]
                   ELSE sent
        /\ cur' = [cur EXCEPT ![c].nsent = @ + 1]
  /\ mu' = 0
  /\ pc' = [pc EXCEPT ![c] = "send_done"]
  /\ UNCHANGED <<connvars, sessvars>>
  /\ UNCHANGED <<requests, subs, heap, chanbuf, ws, dpc, dframe, dch, dsl,
                 didx, dsnap, drem, last, ncalls, nreq, inbox, srvsub, npush,
                 nerr, nsenderr, dg>>

\* send: the frame is written and the lock released; send returns nil.
SendWrite(c) ==
  /\ pc[c] = "send_write"
  /\ ws = "open"
  /\ LET r == cur[c]
     IN /\ wire' = Append(wire, [cmd |-> r.cmd, reg |-> r.reg, sel |-> r.sel,
                                 rid |-> r.rid, val |-> r.val, hash |-> r.hash])
        /\ sent' = IF <<r.cmd, r.reg, r.sel>> \in SentKeys
                   THEN [sent EXCEPT ![<<r.cmd, r.reg, r.sel>>] = @ + 1]
                   ELSE sent
        /\ cur' = [cur EXCEPT ![c].nsent = @ + 1]
  /\ mu' = 0
  /\ pc' = [pc EXCEPT ![c] = "send_done"]
  /\ UNCHANGED <<connvars, sessvars>>
  /\ UNCHANGED <<requests, subs, heap, chanbuf, ws, dpc, dframe, dch, dsl,
                 didx, dsnap, drem, last, ncalls, nreq, inbox, srvsub, npush,
                 nerr, nsenderr, dg>>

\* send: the write fails; the lock is released and send returns the error.
SendFail(c, lim) ==
  /\ pc[c] = "send_write"
  /\ ws = "failed" \/ nsenderr < lim
  /\ nsenderr' = IF ws = "failed" THEN nsenderr ELSE nsenderr + 1
  /\ mu' = 0
  /\ cur' = [cur EXCEPT ![c].err = "senderr"]
  /\ pc' = [pc EXCEPT ![c] = "send_done"]
  /\ UNCHANGED <<connvars, sessvars>>
  /\ UNCHANGED <<requests, subs, heap, chanbuf, ws, dpc, dframe, dch, dsl,
                 didx, dsnap, drem, last, ncalls, nreq, wire, inbox, srvsub,
                 npush, nerr, sent, dg>>

\* makeRequest after send: the error is returned, and so returns the
\* operation that called makeRequest; without one the caller reaches
\* message := <-responseChannel and waits there.
MakeRequestSent(c) ==
  /\ pc[c] = "send_done"
  /\ IF cur[c].err # "nil"
     THEN AfterRequest(c, [cur[c] EXCEPT !.mrresp = NoResponse,
                                         !.mrerr = <<cur[c].err>>],
                       cur[c].err)
     ELSE /\ pc' = [pc EXCEPT ![c] = "mr_wait"]
          /\ UNCHANGED <<cur, last>>
  /\ UNCHANGED <<connvars, sessvars>>
  /\ UNCHANGED <<requests, subs, heap, chanbuf, mu, ws, dpc, dframe, dch, dsl,
                 didx, dsnap, drem, ncalls, nreq, wire, inbox, srvsub, npush,
                 nerr, nsenderr, sent, dg>>

\* A return that, for a Subscribe whose request the server rejected, puts
\* the selector's entry back to the slice read before the append.
MakeRequestReturnRollback(c) ==
  /\ pc[c] = "mr_ret"
  /\ LET msg == cur[c].msg
         r == cur[c]
     IN /\ AfterRequest(c, [r EXCEPT !.mrresp = IF msg.ok THEN ParseResponse(msg)
                                                ELSE NoResponse,
                                     !.mrerr = IF msg.ok THEN <<"nil">>
                                               ELSE <<msg.code, msg.details>>],
                        IF msg.ok THEN "nil" ELSE "cmderr")
        /\ subs' = IF ~msg.ok /\ r.op = "Subscribe"
                   THEN [subs EXCEPT ![r.reg][r.sel] = r.subs]
                   ELSE subs
  /\ UNCHANGED <<connvars, sessvars>>
  /\ UNCHANGED <<requests, heap, chanbuf, mu, ws, dpc, dframe, dch, dsl,
                 didx, dsnap, drem, ncalls, nreq, wire, inbox, srvsub, npush,
                 nerr, nsenderr, sent, dg>>

\* A return that, for an Unsubscribe whose request the server rejected,
\* puts the selector's entry back to the slice read before the removal.
MakeRequestReturnReinstate(c) ==
  /\ pc[c] = "mr_ret"
  /\ LET msg == cur[c].msg
         r == cur[c]
     IN /\ AfterRequest(c, [r EXCEPT !.mrresp = IF msg.ok THEN ParseResponse(msg)
                                                ELSE NoResponse,
                                     !.mrerr = IF msg.ok THEN <<"nil">>
                                               ELSE <<msg.code, msg.details>>],
                        IF msg.ok THEN "nil" ELSE "cmderr")
        /\ subs' = IF ~msg.ok /\ r.op = "Unsubscribe"
                   THEN [subs EXCEPT ![r.reg][r.sel] = r.subs]
                   ELSE subs
  /\ UNCHANGED <<connvars, sessvars>>
  /\ UNCHANGED <<requests, heap, chanbuf, mu, ws, dpc, dframe, dch, dsl,
                 didx, dsnap, drem, ncalls, nreq, wire, inbox, srvsub, npush,
                 nerr, nsenderr, sent, dg>>

\* A makeRequest that returns the parsed response whatever its ok flag.
MakeRequestReturnAnyResponse(c) ==
  /\ pc[c] = "mr_ret"
  /\ LET msg == cur[c].msg
     IN AfterRequest(c, [cur[c] EXCEPT !.mrresp = ParseResponse(msg),
                                       !.mrerr = <<"nil">>],
                     "nil")
  /\ UNCHANGED <<connvars, sessvars>>
  /\ UNCHANGED <<requests, subs, heap, chanbuf, mu, ws, dpc, dframe, dch, dsl,
                 didx, dsnap, drem, ncalls, nreq, wire, inbox, srvsub, npush,
                 nerr, nsenderr, sent, dg>>

\* makeRequest after the reply: the message is unmarshalled; when it is
\* not ok it is unmarshalled again as a kv.Error and the error returned is
\* that parse's, or "code: details"; otherwise the response is returned.
MakeRequestReturn(c) ==
  /\ pc[c] = "mr_ret"
  /\ LET msg == cur[c].msg
     IN IF ~msg.ok
        THEN IF ~msg.errOK
             THEN AfterRequest(c, [cur[c] EXCEPT !.mrresp = NoResponse,
                                                !.mrerr = <<"parseerr">>],
                               "parseerr")
             ELSE AfterRequest(c, [cur[c] EXCEPT !.mrresp = NoResponse,
                                                !.mrerr = <<msg.code, msg.details>>],
                               "cmderr")
        ELSE AfterRequest(c, [cur[c] EXCEPT !.mrresp = ParseResponse(msg),
                                           !.mrerr = <<"nil">>],
                          "nil")
  /\ UNCHANGED <<connvars, sessvars>>
  /\ UNCHANGED <<requests, subs, heap, chanbuf, mu, ws, dpc, dframe, dch, dsl,
                 didx, dsnap, drem, ncalls, nreq, wire, inbox, srvsub, npush,
                 nerr, nsenderr, sent, dg>>

\* ----------------------------------------------------------- dispatch loop
\* After the current submessage: the next one, or the next frame.
Advance ==
  /\ dframe' = Tail(dframe)
  /\ dpc' = IF Tail(dframe) = <<>> THEN "read" ELSE "msg"

\* for pair := range s.prefixsubs.IterBuffered(): the snapshot is taken.
StartPrefixes ==
  /\ dsnap' = subs["prefix"]
  /\ drem' = Sels
  /\ dsl' = NilSlice
  /\ didx' = 0
  /\ dpc' = "pre_fan"

\* A channel send that never completes.
CanSendNever(chann) == FALSE

\* chann <- KeyValuePair{push.Key, push.NewValue}: blocks while the
\* channel's buffer is full (and for ever on a nil channel).
CanSend(chann) == chann # 0 /\ Len(chanbuf[chann]) < ChanCap
SendPair(chann, msg) ==
  /\ chanbuf' = [chanbuf EXCEPT ![chann] = Append(@, KeyValuePair(msg.key, msg.val))]
  /\ dg' = [dg EXCEPT !.got = Append(@, chann)]

\* A dispatch goroutine that reads the newest frame the connection holds
\* instead of the oldest.
ReadNextNewest ==
  /\ dpc = "read"
  /\ ws = "open"
  /\ inbox # <<>>
  /\ dframe' = inbox[Len(inbox)]
  /\ inbox' = SubSeq(inbox, 1, Len(inbox) - 1)
  /\ dpc' = "msg"
  /\ UNCHANGED <<connvars, sessvars>>
  /\ UNCHANGED <<requests, subs, heap, chanbuf, mu, ws, dch, dsl, didx, dsnap,
                 drem, pc, cur, last, ncalls, nreq, wire, srvsub, npush, nerr,
                 nsenderr, sent, dg>>

\* s.readNext() returns a text frame; strings.Split cuts it.
ReadNext ==
  /\ dpc = "read"
  /\ ws = "open"
  /\ inbox # <<>>
  /\ dframe' = Head(inbox)
  /\ inbox' = Tail(inbox)
  /\ dpc' = "msg"
  /\ UNCHANGED <<connvars, sessvars>>
  /\ UNCHANGED <<requests, subs, heap, chanbuf, mu, ws, dch, dsl, didx, dsnap,
                 drem, pc, cur, last, ncalls, nreq, wire, srvsub, npush, nerr,
                 nsenderr, sent, dg>>

\* An exit on a read error that first fails every pending request.
ReadErrorResolving ==
  /\ dpc = "read"
  /\ ws = "failed"
  /\ dpc' = "exit"
  /\ pc' = [c \in Callers |-> IF pc[c] = "mr_wait" THEN "mr_ret" ELSE pc[c]]
  /\ cur' = [c \in Callers |->
               IF pc[c] = "mr_wait"
               THEN [cur[c] EXCEPT !.msg = ResponseMsg(cur[c].rid, FALSE)]
               ELSE cur[c]]
  /\ requests' = [r \in Rids |-> 0]
  /\ UNCHANGED <<connvars, sessvars>>
  /\ UNCHANGED <<subs, heap, chanbuf, mu, ws, dframe, dch, dsl, didx, dsnap,
                 drem, last, ncalls, nreq, wire, inbox, srvsub, npush, nerr,
                 nsenderr, sent, dg>>

\* s.readNext() returns an error: the goroutine returns.
ReadError ==
  /\ dpc = "read"
  /\ ws = "failed"
  /\ dpc' = "exit"
  /\ UNCHANGED <<connvars, sessvars>>
  /\ UNCHANGED <<requests, subs, heap, chanbuf, mu, ws, dframe, dch, dsl, didx,
                 dsnap, drem, pc, cur, last, ncalls, nreq, wire, inbox, srvsub,
                 npush, nerr, nsenderr, sent, dg>>

\* s.readNext() on a healthy connection that stays idle: the context of
\* the read, made with a timeout of one minute, expires; Read returns its
\* error and the goroutine returns.
ReadTimeout ==
  /\ dpc = "read"
  /\ ws = "open"
  /\ inbox = <<>>
  /\ dpc' = "exit"
  /\ UNCHANGED <<connvars, sessvars>>
  /\ UNCHANGED <<requests, subs, heap, chanbuf, mu, ws, dframe, dch, dsl, didx,
                 dsnap, drem, pc, cur, last, ncalls, nreq, wire, inbox, srvsub,
                 npush, nerr, nsenderr, sent, dg>>

\* A lookup that takes the oldest pending request instead of the one the
\* response names.
RequestsGetOldest(rid) ==
  LET pending == {requests[r] : r \in Rids} \ {0}
  IN IF pending = {} THEN 0
     ELSE CHOOSE ch \in pending : \A other \in pending : ch <= other

\* chn, ok := s.requests.Get(response.RequestID)
RequestsGet(rid) == requests[rid]

\* A classification by the type first: a message of type push is fanned
\* out even when it carries a request identifier.
HandleMessageTypeFirst ==
  /\ dpc = "msg"
  /\ LET msg == Head(dframe)
     IN IF ~msg.envOK
        THEN /\ dpc' = "exit"
             /\ UNCHANGED <<dframe, dch, dsl, didx, dsnap, drem, dg>>
        ELSE IF msg.ctype = "push" /\ msg.pushOK
        THEN /\ dg' = [NoPush EXCEPT !.active = TRUE, !.key = msg.key,
                                     !.pre = MatchingListeners(msg.key)]
             /\ IF subs["key"][msg.key].len > 0
                THEN /\ dsl' = subs["key"][msg.key]
                     /\ didx' = 0
                     /\ dpc' = "key_fan"
                     /\ UNCHANGED <<dsnap, drem>>
                ELSE StartPrefixes
             /\ UNCHANGED <<dframe, dch>>
        ELSE IF msg.rid # 0 /\ RequestsGet(msg.rid) # 0
        THEN /\ dch' = RequestsGet(msg.rid)
             /\ dpc' = "resp_send"
             /\ UNCHANGED <<dframe, dsl, didx, dsnap, drem, dg>>
        ELSE /\ Advance
             /\ UNCHANGED <<dch, dsl, didx, dsnap, drem, dg>>
  /\ UNCHANGED <<connvars, sessvars>>
  /\ UNCHANGED <<requests, subs, heap, chanbuf, mu, ws, pc, cur, last, ncalls,
                 nreq, wire, inbox, srvsub, npush, nerr, nsenderr, sent>>

\* One submessage is unmarshalled and classified: a response (it has a
\* request identifier), a push, or neither.
HandleMessage ==
  /\ dpc = "msg"
  /\ LET msg == Head(dframe)
     IN IF ~msg.envOK
        THEN /\ dpc' = "exit"
             /\ UNCHANGED <<dframe, dch, dsl, didx, dsnap, drem, dg>>
        ELSE IF msg.rid # 0
        THEN IF RequestsGet(msg.rid) # 0
             THEN /\ dch' = RequestsGet(msg.rid)
                  /\ dpc' = "resp_send"
                  /\ UNCHANGED <<dframe, dsl, didx, dsnap, drem, dg>>
             ELSE /\ Advance
                  /\ UNCHANGED <<dch, dsl, didx, dsnap, drem, dg>>
        ELSE IF msg.ctype = "push" /\ msg.pushOK
        THEN /\ dg' = [NoPush EXCEPT !.active = TRUE, !.key = msg.key,
                                     !.pre = MatchingListeners(msg.key)]
             /\ IF subs["key"][msg.key].len > 0
                THEN /\ dsl' = subs["key"][msg.key]
                     /\ didx' = 0
                     /\ dpc' = "key_fan"
                     /\ UNCHANGED <<dsnap, drem>>
                ELSE StartPrefixes
             /\ UNCHANGED <<dframe, dch>>
        ELSE /\ Advance
             /\ UNCHANGED <<dch, dsl, didx, dsnap, drem, dg>>
  /\ UNCHANGED <<connvars, sessvars>>
  /\ UNCHANGED <<requests, subs, heap, chanbuf, mu, ws, pc, cur, last, ncalls,
                 nreq, wire, inbox, srvsub, npush, nerr, nsenderr, sent>>

\* chn.(chan string) <- msg meets message := <-responseChannel: the channel
\* is unbuffered, so the send completes only with the caller receiving.
RespDeliver(c) ==
  /\ dpc = "resp_send"
  /\ pc[c] = "mr_wait"
  /\ cur[c].ch = dch
  /\ cur' = [cur EXCEPT ![c].msg = Head(dframe)]
  /\ pc' = [pc EXCEPT ![c] = "mr_ret"]
  /\ dpc' = "resp_remove"
  /\ UNCHANGED <<connvars, sessvars>>
  /\ UNCHANGED <<requests, subs, heap, chanbuf, mu, ws, dframe, dch, dsl, didx,
                 dsnap, drem, last, ncalls, nreq, wire, inbox, srvsub, npush,
                 nerr, nsenderr, sent, dg>>

\* s.requests.Remove(response.RequestID)
RespRemove ==
  /\ dpc = "resp_remove"
  /\ requests' = [requests EXCEPT ![Head(dframe).rid] = 0]
  /\ Advance
  /\ UNCHANGED <<connvars, sessvars>>
  /\ UNCHANGED <<subs, heap, chanbuf, mu, ws, dch, dsl, didx, dsnap, drem, pc,
                 cur, last, ncalls, nreq, wire, inbox, srvsub, npush, nerr,
                 nsenderr, sent, dg>>

\* One send of the range over the key's subscriptions; after the last the
\* prefix subscriptions are iterated.
KeySubsSend ==
  /\ dpc = "key_fan"
  /\ didx < dsl.len
  /\ LET chann == heap[dsl.arr][didx + 1]
     IN /\ CanSend(chann)
        /\ SendPair(chann, Head(dframe))
  /\ IF didx + 1 < dsl.len
     THEN /\ didx' = didx + 1
          /\ UNCHANGED <<dpc, dsl, dsnap, drem>>
     ELSE StartPrefixes
  /\ UNCHANGED <<connvars, sessvars>>
  /\ UNCHANGED <<requests, subs, heap, mu, ws, dframe, dch, pc, cur, last,
                 ncalls, nreq, wire, inbox, srvsub, npush, nerr, nsenderr, sent>>

\* The pairs of the snapshot whose selector is a prefix of the pushed key
\* and holds listeners; the others are passed over.
PrefixCandidates ==
  {p \in drem : HasPrefix(Head(dframe).key, p) /\ dsnap[p].len > 0}

\* The iteration reaches the next such pair (the order is the map's).
PrefixNext ==
  /\ dpc = "pre_fan"
  /\ didx >= dsl.len
  /\ \E p \in PrefixCandidates :
       /\ dsl' = dsnap[p]
       /\ drem' = drem \ {p}
  /\ didx' = 0
  /\ UNCHANGED <<connvars, sessvars>>
  /\ UNCHANGED <<requests, subs, heap, chanbuf, mu, ws, dpc, dframe, dch,
                 dsnap, pc, cur, last, ncalls, nreq, wire, inbox, srvsub,
                 npush, nerr, nsenderr, sent, dg>>

\* One send of the range over a matching prefix's subscriptions.
PrefixSubsSend ==
  /\ dpc = "pre_fan"
  /\ didx < dsl.len
  /\ LET chann == heap[dsl.arr][didx + 1]
     IN /\ CanSend(chann)
        /\ SendPair(chann, Head(dframe))
  /\ didx' = didx + 1
  /\ UNCHANGED <<connvars, sessvars>>
  /\ UNCHANGED <<requests, subs, heap, mu, ws, dpc, dframe, dch, dsl, dsnap,
                 drem, pc, cur, last, ncalls, nreq, wire, inbox, srvsub, npush,
                 nerr, nsenderr, sent>>

\* The iteration is over: the push is done.
PushDone ==
  /\ dpc = "pre_fan"
  /\ didx >= dsl.len
  /\ PrefixCandidates = {}
  /\ Advance
  /\ dg' = [dg EXCEPT !.active = FALSE, !.done = TRUE]
  /\ UNCHANGED <<connvars, sessvars>>
  /\ UNCHANGED <<requests, subs, heap, chanbuf, mu, ws, dch, dsl, didx, dsnap,
                 drem, pc, cur, last, ncalls, nreq, wire, inbox, srvsub, npush,
                 nerr, nsenderr, sent>>

\* ------------------------------------------------------------ environment
\* The server's frame reaches the connection, as a frame of its own or
\* joined by a newline to the last frame not yet read.
Deliver(m, joined) ==
  IF joined THEN [inbox EXCEPT ![Len(inbox)] = Append(@, m)]
  ELSE Append(inbox, <<m>>)

\* The server's possible answers to a request: ok, with a challenge as
\* data for an authentication request; and, from a server that may fail
\* the request, an error with its code and details, or a challenge that
\* does not decode.
Replies(req, faulty) ==
  {[ResponseMsg(req.rid, TRUE) EXCEPT !.data = d] :
     d \in IF req.cmd = "auth_request"
           THEN (IF faulty THEN Challenges ELSE {"challenge"})
           ELSE {""}}
  \cup (IF faulty
        THEN {[ResponseMsg(req.rid, FALSE) EXCEPT !.code = p[1], !.details = p[2]] :
                p \in ErrPairs}
        ELSE {})

\* The server handles one of the requests it holds: it subscribes or
\* unsubscribes the connection and answers ok, or rejects the request.
ServerHandle(errlim) ==
  /\ ws = "open"
  /\ \E i \in 1..Len(wire), joined \in BOOLEAN :
       \E m \in Replies(wire[i], nerr < errlim) :
         LET req == wire[i]
         IN /\ joined => inbox # <<>>
            /\ nerr' = IF m.ok /\ m.data # "notbase64" THEN nerr ELSE nerr + 1
            /\ srvsub' = IF ~m.ok THEN srvsub
                         ELSE IF req.cmd = "sub"
                         THEN [srvsub EXCEPT ![req.reg] = @ \cup {req.sel}]
                         ELSE IF req.cmd = "unsub"
                         THEN [srvsub EXCEPT ![req.reg] = @ \ {req.sel}]
                         ELSE srvsub
            /\ inbox' = Deliver(m, joined)
            /\ wire' = SubSeq(wire, 1, i - 1) \o SubSeq(wire, i + 1, Len(wire))
  /\ UNCHANGED <<connvars, sessvars>>
  /\ UNCHANGED <<requests, subs, heap, chanbuf, mu, ws, dpc, dframe, dch, dsl,
                 didx, dsnap, drem, pc, cur, last, ncalls, nreq, npush,
                 nsenderr, sent, dg>>

\* A frame, or a message joined to the last frame, on a sequence of frames;
\* and several messages one after another, the first joined or not, the
\* others together with it or each in a frame of its own.
DeliverTo(box, m, joined) ==
  IF joined THEN [box EXCEPT ![Len(box)] = Append(@, m)]
  ELSE Append(box, <<m>>)

RECURSIVE DeliverAll(_, _, _, _)
DeliverAll(box, msgs, joined, together) ==
  IF msgs = <<>> THEN box
  ELSE DeliverAll(DeliverTo(box, Head(msgs), joined), Tail(msgs),
                  together, together)

\* The commands a hub with a password takes from a connection that has not
\* authenticated.
AuthCmds == {"auth_request", "auth_challenge"}

\* The hub handles one of the requests it holds.  With a password set it
\* rejects every command of a connection that has not authenticated, and
\* authenticates the connection whose digest is the one of its password.
\* It subscribes and unsubscribes the connection, writes and reads its
\* store, and pushes a written key to the connection when the connection
\* is subscribed to the key or to a prefix of it, before or after the
\* response.  Up to errlim times it answers an authentication request with
\* data that is not a well-formed challenge.
HubHandle(protected, errlim) ==
  /\ ws = "open"
  /\ \E i \in 1..Len(wire), joined \in BOOLEAN, together \in BOOLEAN,
        pushfirst \in BOOLEAN, d \in AuthData :
       LET req == wire[i]
           denied == protected /\ ~hubauth /\ req.cmd \notin AuthCmds
           good == IF denied THEN FALSE
                   ELSE IF req.cmd = "auth_challenge"
                   THEN req.hash = Hmac(HubPassword, "salt", "chal")
                   ELSE TRUE
           reply == IF good
                    THEN [ResponseMsg(req.rid, TRUE) EXCEPT
                            !.data = IF req.cmd = "auth_request" THEN d
                                     ELSE IF req.cmd = "kget" THEN store[req.sel]
                                     ELSE ""]
                    ELSE [ResponseMsg(req.rid, FALSE) EXCEPT
                            !.code = IF denied THEN "authentication required"
                                     ELSE "authentication failed",
                            !.details = ""]
           subscribed == \/ req.sel \in srvsub["key"]
                         \/ \E p \in srvsub["prefix"] : HasPrefix(req.sel, p)
           pushes == IF good /\ req.cmd = "kset" /\ subscribed
                     THEN <<PushMsg(req.sel, req.val)>> ELSE <<>>
           msgs == IF pushfirst THEN pushes \o <<reply>> ELSE <<reply>> \o pushes
       IN /\ joined => inbox # <<>>
          /\ (pushfirst \/ together) => pushes # <<>>
          /\ d # "challenge" => (req.cmd = "auth_request" /\ good /\ nerr < errlim)
          /\ nerr' = IF d # "challenge" THEN nerr + 1 ELSE nerr
          /\ hubauth' = (hubauth \/ (good /\ req.cmd = "auth_challenge"))
          /\ store' = IF good /\ req.cmd = "kset"
                      THEN [store EXCEPT ![req.sel] = req.val] ELSE store
          /\ srvsub' = IF ~good THEN srvsub
                       ELSE IF req.cmd = "sub"
                       THEN [srvsub EXCEPT ![req.reg] = @ \cup {req.sel}]
                       ELSE IF req.cmd = "unsub"
                       THEN [srvsub EXCEPT ![req.reg] = @ \ {req.sel}]
                       ELSE srvsub
          /\ inbox' = DeliverAll(inbox, msgs, joined, together)
          /\ wire' = SubSeq(wire, 1, i - 1) \o SubSeq(wire, i + 1, Len(wire))
  /\ UNCHANGED connvars
  /\ UNCHANGED client
  /\ UNCHANGED <<requests, subs, heap, chanbuf, mu, ws, dpc, dframe, dch, dsl,
                 didx, dsnap, drem, pc, cur, last, ncalls, nreq, npush,
                 nsenderr, sent, dg>>

\* The pushes sent and not yet read.
RECURSIVE PushesIn(_)
PushesIn(frames) ==
  IF frames = <<>> THEN 0
  ELSE Count([i \in DOMAIN Head(frames) |-> Head(frames)[i].ctype], "push")
         + PushesIn(Tail(frames))
InFlight == PushesIn(inbox)

\* Some client writes key: the server pushes it to this connection when
\* the connection is subscribed to the key or to a prefix of it.
ServerPush(key, lim) ==
  /\ npush < lim
  /\ InFlight < MaxInFlight
  /\ ws = "open"
  /\ key \in srvsub["key"] \/ \E p \in srvsub["prefix"] : HasPrefix(key, p)
  /\ \E joined \in BOOLEAN :
       /\ joined => inbox # <<>>
       /\ inbox' = Deliver(PushMsg(key, npush + 1), joined)
  /\ npush' = npush + 1
  /\ UNCHANGED <<connvars, sessvars>>
  /\ UNCHANGED <<requests, subs, heap, chanbuf, mu, ws, dpc, dframe, dch, dsl,
                 didx, dsnap, drem, pc, cur, last, ncalls, nreq, wire, srvsub,
                 nerr, nsenderr, sent, dg>>

\* A message one of the two Unmarshal calls of the loop rejects: one that is
\* no JSON object at all ("envelope"), or a push whose fields have the
\* wrong types ("push": kv.Response takes it, kv.Push does not).
MalformedKinds == {"envelope", "push"}
MalformedMsg(kind) ==
  IF kind = "envelope" THEN NoMsg
  ELSE [NoMsg EXCEPT !.ctype = "push", !.envOK = TRUE]

\* The connection carries such a message, counted with the pushes.
ServerMalformed(kind, lim) ==
  /\ npush < lim
  /\ InFlight < MaxInFlight
  /\ ws = "open"
  /\ \E joined \in BOOLEAN :
       /\ joined => inbox # <<>>
       /\ inbox' = Deliver(MalformedMsg(kind), joined)
  /\ npush' = npush + 1
  /\ UNCHANGED <<connvars, sessvars>>
  /\ UNCHANGED <<requests, subs, heap, chanbuf, mu, ws, dpc, dframe, dch, dsl,
                 didx, dsnap, drem, pc, cur, last, ncalls, nreq, wire, srvsub,
                 nerr, nsenderr, sent, dg>>

\* Well-formed messages that answer no request of the client and are no
\* push: a response (its identifier may or may not be in the table when it
\* is handled), a message without identifier whose type is not push, and a
\* message of type push that carries an identifier.
StrayKinds == {"response", "other", "pushrid"}
StrayMsg(kind, rid, n) ==
  IF kind = "response" THEN [ResponseMsg(rid, TRUE) EXCEPT !.data = "stray"]
  ELSE IF kind = "other"
  THEN [NoMsg EXCEPT !.ctype = "other", !.envOK = TRUE, !.pushOK = TRUE,
                     !.errOK = TRUE, !.data = "stray"]
  ELSE [PushMsg(<<"s">>, n) EXCEPT !.rid = rid, !.errOK = TRUE]

\* The connection carries such a message, counted with the pushes.
ServerStray(kind, rid, lim) ==
  /\ npush < lim
  /\ InFlight < MaxInFlight
  /\ ws = "open"
  /\ \E joined \in BOOLEAN :
       /\ joined => inbox # <<>>
       /\ inbox' = Deliver(StrayMsg(kind, rid, npush + 1), joined)
  /\ npush' = npush + 1
  /\ UNCHANGED <<connvars, sessvars>>
  /\ UNCHANGED <<requests, subs, heap, chanbuf, mu, ws, dpc, dframe, dch, dsl,
                 didx, dsnap, drem, pc, cur, last, ncalls, nreq, wire, srvsub,
                 nerr, nsenderr, sent, dg>>

\* The text of a frame: its messages, and the newlines between them.
Newline == [NoMsg EXCEPT !.ctype = "\n"]

\* strings.Split(string(message), "\n"): the text is cut at every newline;
\* n newlines give n + 1 segments, empty ones included.
RECURSIVE Split(_)
Split(text) ==
  IF \A i \in DOMAIN text : text[i] # Newline THEN <<text>>
  ELSE LET i == CHOOSE n \in DOMAIN text :
                  /\ text[n] = Newline
                  /\ \A j \in 1..(n - 1) : text[j] # Newline
       IN <<SubSeq(text, 1, i - 1)>> \o Split(SubSeq(text, i + 1, Len(text)))

\* UnmarshalFromString(msg, &response) on one segment: the segment that
\* holds a message gives that message, the empty string is no JSON value
\* and gives an error.
UnmarshalSegment(seg) == IF Len(seg) = 1 THEN seg[1] ELSE NoMsg

\* A frame as the loop sees it: the segments of its text, each unmarshalled.
FrameOf(text) ==
  [i \in DOMAIN Split(text) |-> UnmarshalSegment(Split(text)[i])]

\* The messages msgs with sep between one and the next.
RECURSIVE JoinWith(_, _)
JoinWith(msgs, sep) ==
  IF Len(msgs) <= 1 THEN msgs
  ELSE <<Head(msgs)>> \o sep \o JoinWith(Tail(msgs), sep)

\* The texts a frame of well-formed messages may have: the messages joined
\* by newlines, the same ended by a newline, and the messages with an empty
\* line between them.
FrameShapes == {"plain", "trailing", "blank"}
FrameText(msgs, shape) ==
  IF shape = "plain" THEN JoinWith(msgs, <<Newline>>)
  ELSE IF shape = "trailing" THEN JoinWith(msgs, <<Newline>>) \o <<Newline>>
  ELSE JoinWith(msgs, <<Newline, Newline>>)

\* The server sends k pushes of a key the connection is subscribed to as
\* one frame.
ServerFrame(key, k, shape, lim) ==
  /\ npush + k <= lim
  /\ ws = "open"
  /\ key \in srvsub["key"] \/ \E p \in srvsub["prefix"] : HasPrefix(key, p)
  /\ shape = "blank" => k >= 2
  /\ inbox' = Append(inbox,
                     FrameOf(FrameText([i \in 1..k |-> PushMsg(key, npush + i)],
                                       shape)))
  /\ npush' = npush + k
  /\ UNCHANGED <<connvars, sessvars>>
  /\ UNCHANGED <<requests, subs, heap, chanbuf, mu, ws, dpc, dframe, dch, dsl,
                 didx, dsnap, drem, pc, cur, last, ncalls, nreq, wire, srvsub,
                 nerr, nsenderr, sent, dg>>

\* The connection fails.
ConnFail ==
  /\ ws = "open"
  /\ ws' = "failed"
  /\ UNCHANGED <<connvars, sessvars>>
  /\ UNCHANGED <<requests, subs, heap, chanbuf, mu, dpc, dframe, dch, dsl,
                 didx, dsnap, drem, pc, cur, last, ncalls, nreq, wire, inbox,
                 srvsub, npush, nerr, nsenderr, sent, dg>>

\* A listener's owner receives from its channel.
ListenerRecv(l) ==
  /\ dpc # "panic"
  /\ chanbuf[l] # <<>>
  /\ chanbuf' = [chanbuf EXCEPT ![l] = Tail(@)]
  /\ UNCHANGED <<connvars, sessvars>>
  /\ UNCHANGED <<requests, subs, heap, mu, ws, dpc, dframe, dch, dsl, didx,
                 dsnap, drem, pc, cur, last, ncalls, nreq, wire, inbox, srvsub,
                 npush, nerr, nsenderr, sent, dg>>

\* ----------------------------------------------- connections, goroutines
\* The goroutines of ConnectToWebsocket followed frame by frame: which
\* connection each one reads.  The handling of a frame's messages is the
\* dispatch loop above; here it is one step.
reqvars == <<requests, subs, heap, chanbuf, mu, ws, dpc, dframe, dch, dsl,
             didx, dsnap, drem, pc, cur, last, ncalls, nreq, wire, inbox,
             srvsub, npush, nerr, nsenderr, sent, dg, client, hubauth, store>>

\* A nil s.ws read by a goroutine ends the process.
Panicked == \E g \in DOMAIN loops : loops[g].st = "panic"

\* ConnectToWebsocket: s.ws takes what Dial returns, the connection or,
\* with an error, nil; after a successful Dial a goroutine is started.
\* Nothing is done about the connection s.ws pointed to before, nor about
\* the goroutine reading it.
ConnectToWebsocket(ok) ==
  /\ ~Panicked
  /\ nconn < MaxConns
  /\ nconn' = nconn + 1
  /\ IF ok
     THEN /\ wsconn' = nconn + 1
          /\ loops' = Append(loops, [st |-> "top", on |-> 0])
          /\ UNCHANGED closed
     ELSE /\ wsconn' = 0
          /\ closed' = closed \cup {nconn + 1}
          /\ UNCHANGED loops
  /\ UNCHANGED cin
  /\ UNCHANGED reqvars

\* Close: s.ws.CloseNow() when s.ws is not nil.
Close ==
  /\ ~Panicked
  /\ wsconn # 0
  /\ wsconn \notin closed
  /\ closed' = closed \cup {wsconn}
  /\ UNCHANGED <<wsconn, nconn, loops, cin>>
  /\ UNCHANGED reqvars

\* s.readNext(): the goroutine takes s.ws as it is now and reads it.
LoopRead(g) ==
  /\ ~Panicked
  /\ loops[g].st = "top"
  /\ loops' = [loops EXCEPT ![g] =
                 IF wsconn = 0 THEN [st |-> "panic", on |-> 0]
                 ELSE [st |-> "reading", on |-> wsconn]]
  /\ UNCHANGED <<wsconn, nconn, cin, closed>>
  /\ UNCHANGED reqvars

\* The read returns a frame: its messages are handled and the loop comes
\* back to readNext, or returns on an envelope that does not parse.
LoopFrame(g) ==
  /\ ~Panicked
  /\ loops[g].st = "reading"
  /\ loops[g].on \notin closed
  /\ cin[loops[g].on] > 0
  /\ cin' = [cin EXCEPT ![loops[g].on] = @ - 1]
  /\ \E nxt \in {"top", "exit"} : loops' = [loops EXCEPT ![g].st = nxt]
  /\ UNCHANGED <<wsconn, nconn, closed>>
  /\ UNCHANGED reqvars

\* The read returns an error, the connection being closed or the minute of
\* readNext having passed without a frame: the goroutine returns.
LoopReadError(g) ==
  /\ ~Panicked
  /\ loops[g].st = "reading"
  /\ loops[g].on \in closed \/ cin[loops[g].on] = 0
  /\ loops' = [loops EXCEPT ![g].st = "exit"]
  /\ UNCHANGED <<wsconn, nconn, cin, closed>>
  /\ UNCHANGED reqvars

\* The server sends a frame on a connection that is open.
ConnFrame(k) ==
  /\ ~Panicked
  /\ k \notin closed
  /\ cin[k] < MaxConnFrames
  /\ cin' = [cin EXCEPT ![k] = @ + 1]
  /\ UNCHANGED <<wsconn, nconn, loops, closed>>
  /\ UNCHANGED reqvars

\* ------------------------------------------------------------- the system
CallerStep(c) ==
  \/ SubscribeSet(c)
  \/ UnsubscribeLoop(c)
  \/ MakeRequestGen(c)
  \/ MakeRequestSet(c)
  \/ SendLock(c)
  \/ SendWrite(c)
  \/ MakeRequestSent(c)
  \/ RespDeliver(c)
  \/ MakeRequestReturn(c)

CallerBegin(c, lim, S) ==
  \/ \E sel \in S : SubscribeKey(c, sel, lim)
  \/ \E sel \in S : SubscribePrefix(c, sel, lim)
  \/ \E sel \in S, chn \in 1..Len(chanbuf) : UnsubscribeKey(c, sel, chn, lim)
  \/ \E sel \in S, chn \in 1..Len(chanbuf) : UnsubscribePrefix(c, sel, chn, lim)

\* The dispatch goroutine's steps on responses, and those on pushes.
DispatchStep ==
  \/ ReadNext
  \/ HandleMessage
  \/ RespRemove

FanOutStep ==
  \/ KeySubsSend
  \/ PrefixNext
  \/ PrefixSubsSend
  \/ PushDone

\* The selector the concurrent callers of Spec contend on.
ConcSels == {<<"s">>}

\* Two caller goroutines on one selector of each registry, a healthy
\* connection, and a server that accepts every request, may answer them in
\* any order and pushes nothing.
Next ==
  \/ \E c \in Callers : CallerBegin(c, MaxCalls, ConcSels) \/ CallerStep(c)
  \/ DispatchStep
  \/ ServerHandle(0)

Spec == Init /\ [][Next]_vars

\* One caller goroutine, whose calls therefore run one after another, on
\* every selector of both registries; the server pushes nothing.
NextSeq ==
  \/ CallerBegin(1, MaxSeqCalls, Sels) \/ CallerStep(1)
  \/ DispatchStep
  \/ ServerHandle(0)

SpecSeq == Init /\ [][NextSeq]_vars

\* One caller goroutine beside the dispatch goroutine, with a server that
\* pushes and listener owners that receive.
NextPush ==
  \/ CallerBegin(1, MaxPushCalls, Sels) \/ CallerStep(1)
  \/ DispatchStep
  \/ FanOutStep
  \/ ServerHandle(0)
  \/ \E key \in PushKeys : ServerPush(key, MaxPush)
  \/ \E l \in 1..Len(chanbuf) : ListenerRecv(l)

SpecPush == Init /\ [][NextPush]_vars

\* One caller goroutine and listener owners that never receive: the server
\* pushes one key again and again.
SlowKeys == {<<"s">>}
NextSlow ==
  \/ CallerBegin(1, MaxSlowCalls, ConcSels) \/ CallerStep(1)
  \/ DispatchStep
  \/ FanOutStep
  \/ ServerHandle(0)
  \/ \E key \in SlowKeys : ServerPush(key, MaxSlowPush)

SpecSlow == Init /\ [][NextSlow]_vars

\* Two caller goroutines, subscribing, unsubscribing and authenticating,
\* on a connection that may fail or stay idle, with writes that may fail
\* and a server that may reject requests.
NextFault ==
  \/ \E c \in Callers : CallerBegin(c, MaxFaultCalls, ConcSels) \/ CallerStep(c)
  \/ \E c \in Callers : Authenticate(c, MaxFaultCalls) \/ AuthChallenge(c)
  \/ \E c \in Callers : SendFail(c, MaxSendErr)
  \/ DispatchStep
  \/ ReadError
  \/ ReadTimeout
  \/ ServerHandle(MaxErr)
  \/ ConnFail

SpecFault == Init /\ [][NextFault]_vars

\* One caller goroutine and a connection that carries, among the responses
\* and the pushes, messages the loop cannot parse.
NextParse ==
  \/ CallerBegin(1, MaxParseCalls, ConcSels) \/ CallerStep(1)
  \/ DispatchStep
  \/ FanOutStep
  \/ ServerHandle(0)
  \/ \E key \in SlowKeys : ServerPush(key, MaxParsePush)
  \/ \E kind \in MalformedKinds : ServerMalformed(kind, MaxParsePush)
  \/ \E l \in 1..Len(chanbuf) : ListenerRecv(l)

SpecParse == Init /\ [][NextParse]_vars

\* One caller goroutine and a connection that carries, among the responses
\* and the pushes, well-formed messages that are neither.
NextStray ==
  \/ CallerBegin(1, MaxStrayCalls, ConcSels) \/ CallerStep(1)
  \/ DispatchStep
  \/ FanOutStep
  \/ ServerHandle(0)
  \/ \E key \in SlowKeys : ServerPush(key, MaxStray)
  \/ \E kind \in StrayKinds, rid \in Rids : ServerStray(kind, rid, MaxStray)

SpecStray == Init /\ [][NextStray]_vars

\* The steps of makeRequest and send.
RequestStep(c) ==
  \/ MakeRequestGen(c)
  \/ MakeRequestSet(c)
  \/ SendLock(c)
  \/ SendWrite(c)
  \/ MakeRequestSent(c)
  \/ RespDeliver(c)
  \/ MakeRequestReturn(c)

\* NewClient, with each password option, against a hub that has a password
\* and may answer the authentication request with data that is no
\* challenge; on the client NewClient returns, SetKey and GetKey.
NextAuth ==
  \/ \E pw \in Passwords : NewClient(1, pw)
  \/ NewClientReturn(1)
  \/ AuthChallenge(1)
  \/ RequestStep(1)
  \/ \E key \in KVKeys, data \in KVVals : SetKey(1, key, data, MaxAuthCalls)
  \/ \E key \in KVKeys : GetKey(1, key, MaxAuthCalls)
  \/ DispatchStep
  \/ HubHandle(TRUE, MaxErr)

SpecAuth == InitNewClient /\ [][NextAuth]_vars

\* One caller that subscribes, writes and reads, a hub without password
\* that pushes what is written, and a connection that stays up, on which
\* a read may still time out while there is nothing to read.
NextKV ==
  \/ \E sel \in ConcSels : SubscribeKey(1, sel, MaxKVCalls)
  \/ \E sel \in ConcSels : SubscribePrefix(1, sel, MaxKVCalls)
  \/ SubscribeSet(1)
  \/ RequestStep(1)
  \/ \E key \in KVKeys, data \in KVVals : SetKey(1, key, data, MaxKVCalls)
  \/ \E key \in KVKeys : GetKey(1, key, MaxKVCalls)
  \/ DispatchStep
  \/ FanOutStep
  \/ ReadTimeout
  \/ HubHandle(FALSE, 0)

SpecKV == Init /\ [][NextKV]_vars

\* The same with a dispatch goroutine that is scheduled: a step of it that
\* stays possible is taken.
FairSpecKV == SpecKV /\ WF_vars(DispatchStep \/ FanOutStep)

\* Two caller goroutines and a server that pushes, on a connection that
\* stays up and never stays idle long enough for a read to time out; the
\* server accepts every request and the listener owners receive.
NextLive ==
  \/ \E c \in Callers : CallerBegin(c, MaxLiveCalls, ConcSels) \/ CallerStep(c)
  \/ DispatchStep
  \/ FanOutStep
  \/ ServerHandle(0)
  \/ \E key \in SlowKeys : ServerPush(key, MaxLivePush)
  \/ \E l \in 1..Len(chanbuf) : ListenerRecv(l)

SpecLive == Init /\ [][NextLive]_vars

\* The same with every goroutine scheduled, a server that answers every
\* request it holds, and listener owners that receive what their slots hold.
FairSpecLive ==
  /\ SpecLive
  /\ \A c \in Callers : WF_vars(CallerStep(c))
  /\ WF_vars(DispatchStep \/ FanOutStep)
  /\ WF_vars(ServerHandle(0))
  /\ \A l \in 1..MaxLiveCalls :
       WF_vars(l \in 1..Len(chanbuf) /\ ListenerRecv(l))

\* One caller that subscribes, and a server that sends its pushes in
\* frames of one or more messages, with or without a newline at the end or
\* an empty line; the listener owners do not receive.
NextFrame ==
  \/ \E sel \in ConcSels : SubscribeKey(1, sel, MaxFrameCalls)
  \/ \E sel \in ConcSels : SubscribePrefix(1, sel, MaxFrameCalls)
  \/ SubscribeSet(1)
  \/ RequestStep(1)
  \/ DispatchStep
  \/ FanOutStep
  \/ ServerHandle(0)
  \/ \E key \in SlowKeys, k \in 1..MaxFrameLen, shape \in FrameShapes :
       ServerFrame(key, k, shape, MaxFramePush)

SpecFrame == Init /\ [][NextFrame]_vars

\* One caller goroutine, whose calls run one after another, with writes
\* that may fail and a server that may reject requests.
NextSeqFault ==
  \/ CallerBegin(1, MaxSeqFaultCalls, ConcSels) \/ CallerStep(1)
  \/ SendFail(1, MaxSendErr)
  \/ DispatchStep
  \/ ServerHandle(MaxErr)

SpecSeqFault == Init /\ [][NextSeqFault]_vars

\* The public operations on the connection, ConnectToWebsocket and Close,
\* called one after another on the client NewClient returned, with the
\* goroutines they leave running and a server that sends frames.
NextConn ==
  \/ \E ok \in BOOLEAN : ConnectToWebsocket(ok)
  \/ Close
  \/ \E g \in DOMAIN loops : LoopRead(g)
  \/ \E g \in DOMAIN loops : LoopFrame(g)
  \/ \E g \in DOMAIN loops : LoopReadError(g)
  \/ \E k \in 1..nconn : ConnFrame(k)

SpecConn == Init /\ [][NextConn]_vars

\* ----------------------------------------------------------------- claims
\* C1: every makeRequest call receives, and returns on, a response whose
\* requestId is the identifier the call registered and sent, whatever the
\* order in which the server answers the outstanding requests.
C1_ResponseMatchesRequest ==
  \A c \in Callers :
    /\ pc[c] = "mr_ret" => cur[c].msg.rid = cur[c].rid
    /\ last[c].msg # NoMsg => last[c].msg.rid = last[c].rid

\* Two requests were outstanding together and the one registered later is
\* answered first, the other still waiting.
C1_Witness ==
  \E c, d \in Callers :
    /\ pc[c] = "mr_ret" /\ pc[d] = "mr_wait"
    /\ cur[c].ch > cur[d].ch
    /\ cur[c].rid # cur[d].rid
    /\ cur[c].msg.rid = cur[c].rid

\* C2: calls on a selector running one after another, every request
\* succeeding: a Subscribe writes one subscribe request when the entry had
\* no listener and none otherwise; an Unsubscribe of a registered slot
\* writes one unsubscribe request when it removed the last listener and none
\* otherwise; so between calls, subscribes written exceed unsubscribes
\* written by one exactly for the selectors that have listeners.
C2_OneRequestPerTransition ==
  /\ \A c \in Callers :
       LET r == last[c]
       IN r.err = "nil" =>
            /\ r.op = "Subscribe" =>
                 r.nsent = (IF Len(r.pre) = 0 THEN 1 ELSE 0)
            /\ r.op = "Unsubscribe" /\ r.chn \in Range(r.pre) =>
                 r.nsent = (IF Len(r.pre) = 1 THEN 1 ELSE 0)
  /\ pc[1] = "idle" =>
       \A reg \in Regs, sel \in Sels :
         sent[<<"sub", reg, sel>>] - sent[<<"unsub", reg, sel>>]
           = (IF Len(Entries(reg, sel)) > 0 THEN 1 ELSE 0)

\* Two Subscribes on one selector wrote a single subscribe request, a first
\* Unsubscribe wrote nothing and the second, the last listener's, wrote the
\* single unsubscribe request.
C2_Witness ==
  /\ pc[1] = "idle" /\ ncalls = 4 /\ Len(chanbuf) = 2
  /\ LET r == last[1]
     IN /\ r.op = "Unsubscribe" /\ r.err = "nil" /\ r.nsent = 1
        /\ Len(r.pre) = 1 /\ r.chn \in Range(r.pre)
        /\ \A k \in SentKeys :
             sent[k] = (IF k[2] = r.reg /\ k[3] = r.sel THEN 1 ELSE 0)

\* C3: two concurrent Subscribes on one selector that had no listener write
\* exactly one subscribe request, and both returned slots are in the entry
\* once both calls have returned.
C3_FirstListenerAtomic ==
  (/\ ncalls = 2
   /\ \A c \in Callers : pc[c] = "idle" /\ last[c].op = "Subscribe"
   /\ last[1].reg = last[2].reg /\ last[1].sel = last[2].sel)
  => /\ sent[<<"sub", last[1].reg, last[1].sel>>] = 1
     /\ {last[1].chn, last[2].chn} \subseteq Range(Entries(last[1].reg, last[1].sel))

\* C4: with every request succeeding, whenever no call on a selector is in
\* progress the server holds a subscription for it exactly when its entry
\* has a listener.
C4_ServerMatchesRegistry ==
  \A reg \in Regs, sel \in Sels :
    (\A c \in Callers : pc[c] = "idle" \/ cur[c].reg # reg \/ cur[c].sel # sel)
    => (sel \in srvsub[reg] <=> Len(Entries(reg, sel)) > 0)

\* C5: a push fanned out with no registry write meanwhile has reached, once
\* each, the listeners of its exact key and of every prefix of the key, and
\* no other listener.
C5_FanOutExact ==
  dg.done /\ ~dg.mut =>
    \A l \in 1..Len(chanbuf) :
      Count(dg.got, l) = (IF l \in dg.pre THEN 1 ELSE 0)

\* A push for "sA" reached the listener of prefix "s" and the listener of
\* key "sA", and not the listener of key "s".
C5_Witness ==
  /\ dg.done /\ ~dg.mut /\ dg.key = <<"s", "A">>
  /\ Len(Entries("prefix", <<"s">>)) = 1
  /\ Len(Entries("key", <<"s", "A">>)) = 1
  /\ Len(Entries("key", <<"s">>)) = 1
  /\ Range(dg.got) = Range(Entries("prefix", <<"s">>))
                       \cup Range(Entries("key", <<"s", "A">>))

\* C6: a push fanned out while a Subscribe or an Unsubscribe runs reaches
\* no listener twice and skips no listener registered before and after.
C6_PreOrPostSet ==
  dg.done =>
    /\ \A l \in 1..Len(chanbuf) : Count(dg.got, l) <= 1
    /\ \A l \in dg.pre \cap MatchingListeners(dg.key) : Count(dg.got, l) >= 1

\* C7: with listener owners that never receive, the dispatch goroutine is
\* never held at a send to a listener channel.
C7_NeverHeldByListener ==
  ~(/\ dpc \in {"key_fan", "pre_fan"}
    /\ didx < dsl.len
    /\ ~CanSend(heap[dsl.arr][didx + 1]))

\* C8: the dispatch goroutine is never held at the send to a response
\* channel: whenever it is there, the send can complete.
C8_ResponseSendNeverHeld ==
  dpc = "resp_send" => \E c \in Callers : pc[c] = "mr_wait" /\ cur[c].ch = dch

\* C9: an Unsubscribe whose slot is not registered under the selector
\* returns ErrSubscriptionNotFound, leaves the entry as it was and writes no
\* request.
C9_NotRegisteredIsError ==
  \A c \in Callers :
    LET r == last[c]
    IN r.op = "Unsubscribe" /\ r.chn \notin Range(r.pre) =>
         /\ r.err = "ErrSubscriptionNotFound"
         /\ r.post = r.pre
         /\ r.nsent = 0

\* C10: an Unsubscribe of the slot the caller's previous call, a successful
\* Subscribe on the same selector, returned succeeds and leaves the entry
\* with the listeners it had before that Subscribe, in their order.
C10_SubscribeThenUnsubscribe ==
  \A c \in Callers :
    LET r == last[c]
    IN r.op = "Unsubscribe" /\ r.afterSub =>
         /\ r.err = "nil"
         /\ r.post = r.base
         /\ r.chn \notin Range(r.post)

\* Such a pair of calls on an entry that held two other listeners.
C10_Witness ==
  /\ pc[1] = "idle"
  /\ LET r == last[1]
     IN /\ r.op = "Unsubscribe" /\ r.afterSub /\ r.err = "nil"
        /\ Len(r.base) = 2 /\ r.post = r.base

\* C11: once makeRequest has returned for an identifier, after a delivered
\* response or after a failed send, the table holds no entry with the
\* call's response channel under that identifier.
C11_ReturnedRequestNotInTable ==
  \A c \in Callers :
    last[c].ch # 0 => requests[last[c].rid] # last[c].ch

\* C12: two makeRequest calls that hold a table entry at the same time hold
\* different identifiers, and each one's identifier still maps to its own
\* response channel while it waits.
C12_OutstandingIdentifiersDistinct ==
  \A c, d \in Callers :
    (/\ c # d
     /\ pc[c] \in {"send_lock", "send_write", "send_done", "mr_wait"}
     /\ pc[d] \in {"send_lock", "send_write", "send_done", "mr_wait"})
    => /\ cur[c].rid # cur[d].rid
       /\ requests[cur[c].rid] = cur[c].ch

\* C13: once the dispatch goroutine has returned on a read error, every
\* caller waiting in makeRequest goes on waiting: no step gives it a
\* message, and no step removes the entry under its identifier.
C13_ExitLeavesCallersBlocked ==
  [][dpc' = "exit" =>
       \A c \in Callers :
         pc[c] = "mr_wait" =>
           /\ pc'[c] = "mr_wait"
           /\ cur'[c] = cur[c]
           /\ requests[cur[c].rid] # 0 => requests'[cur[c].rid] # 0]_vars

\* The connection failed, the goroutine returned, and both callers wait on
\* requests that are still in the table.
C13_Witness ==
  /\ dpc = "exit" /\ ws = "failed"
  /\ \A c \in Callers : pc[c] = "mr_wait"
  /\ \E c \in Callers : requests[cur[c].rid] = cur[c].ch

\* C14: every message one of the loop's Unmarshal calls rejects, a response
\* envelope or a push payload, makes the dispatch goroutine return: the step
\* that takes up such a message leaves the loop.
C14_ParseFailureIsFatal ==
  [][(/\ dpc = "msg"
      /\ LET msg == Head(dframe)
         IN ~msg.envOK \/ (msg.rid = 0 /\ msg.ctype = "push" /\ ~msg.pushOK)
      /\ (dpc' # dpc \/ dframe' # dframe))
     => dpc' = "exit"]_vars

\* C15: at most one caller is between s.mu.Lock() and the end of its frame
\* write, that caller is the one recorded as holding the lock, and the lock
\* is free whenever no caller is writing, after failed writes as well.
C15_OneWriterAtATime ==
  /\ Cardinality({c \in Callers : pc[c] = "send_write"}) <= 1
  /\ \A c \in Callers : pc[c] = "send_write" <=> mu = c
  /\ mu = 0 \/ mu \in Callers

\* A write of one caller failed and returned its error; the other caller
\* then took the lock and is writing.
C15_Witness ==
  \E c, d \in Callers :
    /\ c # d
    /\ last[c].err = "senderr" /\ pc[c] = "idle"
    /\ pc[d] = "send_write" /\ mu = d

\* C16: whatever public operations were called on the client, no connection
\* is being read by two goroutines at once.
C16_OneReaderPerConnection ==
  \A k \in 1..MaxConns :
    Cardinality({g \in DOMAIN loops :
                   loops[g].st = "reading" /\ loops[g].on = k}) <= 1

\* C17: the dispatch goroutine leaves its read and returns only when the
\* connection has failed or was closed; on a connection that is open and
\* idle the read goes on.
C17_ReadEndsOnlyOnTransportFailure ==
  [][(dpc = "read" /\ dpc' = "exit") => ws = "failed"]_vars

\* C18: the step by which a Subscribe returns the error of its subscribe
\* request, a failed write or the server's rejection, returns the slot with
\* the error and leaves the registry as it is: the slot appended before the
\* request stays in the selector's entry (it is there when the call is the
\* only one made).
C18_FailedSubscribeKeepsSlot ==
  [][\A c \in Callers :
       (/\ cur[c].op = "Subscribe"
        /\ pc[c] \in {"send_done", "mr_ret"}
        /\ pc'[c] = "idle"
        /\ last'[c].err # "nil")
       => /\ last'[c].err \in {"cmderr", "senderr"}
          /\ last'[c].chn = cur[c].chn
          /\ cur[c].chn # 0
          /\ subs' = subs /\ heap' = heap
          /\ ncalls = 1 =>
               cur[c].chn \in Range(EntriesIn(subs', heap', cur[c].reg, cur[c].sel))]_vars

\* The server rejected the subscribe request of the only call made: the
\* call returned the error and its slot is the entry's only listener.
C18_Witness ==
  \E c \in Callers :
    /\ ncalls = 1 /\ pc[c] = "idle"
    /\ last[c].op = "Subscribe" /\ last[c].err = "cmderr"
    /\ Entries(last[c].reg, last[c].sel) = <<last[c].chn>>

\* C19: a makeRequest that received its response returns, when the
\* response is ok, the response as parsed and no error; when it is not ok,
\* the zero kv.Response and an error made of the code and the details the
\* server sent.
C19_ErrorIffNotOk ==
  \A c \in Callers :
    \A r \in {cur[c], last[c]} :
      (r.msg # NoMsg /\ ~(r = cur[c] /\ pc[c] = "mr_ret")) =>
        /\ r.msg.ok =>
             /\ r.mrerr = <<"nil">>
             /\ r.mrresp.ok /\ r.mrresp.rid = r.msg.rid
             /\ r.mrresp.data = r.msg.data
        /\ ~r.msg.ok =>
             /\ r.mrerr = <<r.msg.code, r.msg.details>>
             /\ <<r.msg.code, r.msg.details>> \in ErrPairs
             /\ r.mrresp = NoResponse

\* One call was rejected with code E2 and returned it with its details; the
\* other caller's makeRequest returned the challenge the server sent.
C19_Witness ==
  \E c, d \in Callers :
    /\ last[c].msg # NoMsg /\ ~last[c].msg.ok
    /\ last[c].mrerr = <<"E2", "D2">>
    /\ pc[d] = "auth_hash" /\ cur[d].msg.ok
    /\ cur[d].mrresp.data = "challenge"

\* C20: Authenticate writes its challenge-response request only after its
\* challenge request has returned without error, writes at most one request
\* when the first failed, returns the first error when there is one, and
\* returns nil only when both requests returned without error.
C20_AuthenticateInSequence ==
  \A c \in Callers :
    LET r == cur[c]
        f == last[c]
    IN /\ r.op = "Authenticate" =>
            /\ r.cmd = "auth_request" => r.nsent <= 1
            /\ r.cmd = "auth_challenge" => r.first = "nil" /\ r.nsent \in {1, 2}
       /\ f.op = "Authenticate" =>
            /\ f.first # "nil" =>
                 /\ f.cmd = "auth_request" /\ f.nsent <= 1
                 /\ f.err = f.first /\ f.err # "nil"
            /\ f.err = "nil" =>
                 /\ f.first = "nil" /\ f.cmd = "auth_challenge"
                 /\ f.nsent = 2 /\ f.mrerr = <<"nil">>
            /\ (f.cmd = "auth_challenge" /\ f.mrerr # <<"nil">>) => f.err # "nil"

\* One Authenticate made both round trips and returned nil; the other's
\* challenge request was rejected and it returned after that one request.
C20_Witness ==
  \E c, d \in Callers :
    /\ last[c].op = "Authenticate" /\ last[c].err = "nil" /\ last[c].nsent = 2
    /\ last[d].op = "Authenticate" /\ last[d].first = "cmderr"
    /\ last[d].nsent = 1 /\ last[d].err = "cmderr"

\* The values of the pushes in a sequence of frames, in the order of the
\* frames and of the messages in each (the server numbers its pushes as it
\* sends them).
RECURSIVE PushValues(_)
PushValues(frames) ==
  IF frames = <<>> THEN <<>>
  ELSE SelectSeq([i \in DOMAIN Head(frames) |-> Head(frames)[i].val],
                 LAMBDA v : v # 0)
         \o PushValues(Tail(frames))

Increasing(q) == \A i, j \in DOMAIN q : i < j => q[i] < q[j]

\* C25: the messages the dispatch goroutine has still to process, those of
\* the frame in hand and then those of the frames to be read, are in the
\* order the server sent them; and every listener channel holds the pushes
\* for one key in the order the server sent them, those that came in one
\* frame and those that came in several: no push stands before a push the
\* server sent earlier.  (Two copies of one push in a channel, which the
\* fan-out can produce while Unsubscribe shifts the slice it ranges over,
\* are the subject of C6 and stand next to each other, in order.)
C25_PushesInOrder ==
  /\ Increasing(PushValues(<<dframe>> \o inbox))
  /\ \A l \in 1..Len(chanbuf) :
       \A i, j \in DOMAIN chanbuf[l] :
         (i < j /\ chanbuf[l][i].Key = chanbuf[l][j].Key)
           => chanbuf[l][i].Value <= chanbuf[l][j].Value

\* A listener holds the first push, read in a frame of its own, and the
\* second, the first message of the frame in hand, whose second message is
\* the third push.
C25_Witness ==
  /\ dpc = "pre_fan" /\ Len(dframe) = 2
  /\ dframe[1].val = 2 /\ dframe[2].val = 3
  /\ \E l \in 1..Len(chanbuf) :
       /\ Len(chanbuf[l]) = 2
       /\ chanbuf[l][1].Value = 1 /\ chanbuf[l][2].Value = 2

\* C26: the registry keeps no entry without listeners: once the Unsubscribe
\* that removed a selector's last listener has returned, its unsubscribe
\* request acknowledged, the registry has no entry for the selector.
C26_NoEntryWithoutListener ==
  \A c \in Callers :
    LET r == last[c]
    IN (/\ pc[c] = "idle"
        /\ r.op = "Unsubscribe" /\ r.err = "nil"
        /\ r.pre = <<r.chn>> /\ r.nsent = 1)
       => subs[r.reg][r.sel] = NoEntry

\* C27: for a selector that has no listener, Subscribe and Unsubscribe give
\* the result they give when the registry has no entry for it, whether the
\* registry has none or an empty one: a Subscribe that returns nil has
\* written one subscribe request and left its slot the only listener, and
\* an Unsubscribe returns nil, writes no request and leaves the selector
\* without listener.
C27_EmptyEntryIsAbsent ==
  \A c \in Callers :
    LET r == last[c]
    IN (pc[c] = "idle" /\ r.pre = <<>>) =>
         /\ (r.op = "Subscribe" /\ r.err = "nil") =>
              r.nsent = 1 /\ r.post = <<r.chn>>
         /\ r.op = "Unsubscribe" =>
              r.err = "nil" /\ r.nsent = 0 /\ r.post = <<>>

\* C29: once the dispatch goroutine has returned on a read error of a failed
\* connection, no makeRequest returns: a call that has written, or tried to
\* write, its request waits for ever, whether it registered its request
\* before the goroutine returned or after.
C29_NoReturnAfterExit ==
  [][(dpc = "exit" /\ ws = "failed") =>
       \A c \in Callers :
         pc[c] = "send_done" => pc'[c] \in {"send_done", "mr_wait"}]_vars

\* The other registry.
OtherReg(reg) == IF reg = "key" THEN "prefix" ELSE "key"

\* The requests written for the selectors of a registry.
SentFor(s, reg) == [k \in {x \in SentKeys : x[2] = reg} |-> s[k]]

\* C30: a step of a call on one registry leaves the other registry's
\* entries, and the count of the requests written for the other registry,
\* as they are; no slice of one registry shares its array with a slice of
\* the other; a Subscribe asks for a subscribe request exactly when its own
\* registry has no listener for the selector, whatever the other registry
\* holds; and SubscribeKey(s) followed by SubscribePrefix(s) has written one
\* subscribe-key and one subscribe-prefix request.
C30_RegistriesIndependent ==
  [][/\ \A c \in Callers :
          pc[c] # "idle" =>
            /\ subs'[OtherReg(cur[c].reg)] = subs[OtherReg(cur[c].reg)]
            /\ SentFor(sent', OtherReg(cur[c].reg)) = SentFor(sent, OtherReg(cur[c].reg))
     /\ \A s1, s2 \in Sels :
          subs'["key"][s1].arr # 0 => subs'["key"][s1].arr # subs'["prefix"][s2].arr
     /\ \A c \in Callers :
          (pc'[c] = "sub_set") =>
            (cur'[c].needsAPI <=> EntriesIn(subs', heap', cur'[c].reg, cur'[c].sel) = <<>>)
     /\ (/\ ncalls' = 2 /\ pc'[1] = "idle" /\ Len(chanbuf') = 2
         /\ last'[1].op = "Subscribe" /\ last'[1].reg = "prefix"
         /\ last'[1].chn = 2 /\ last'[1].err = "nil"
         /\ EntriesIn(subs', heap', "key", last'[1].sel) # <<>>)
        => /\ sent'[<<"sub", "key", last'[1].sel>>] = 1
           /\ sent'[<<"sub", "prefix", last'[1].sel>>] = 1
           /\ last'[1].nsent = 1]_vars

\* SubscribeKey("s") then SubscribePrefix("s") have returned: each registry
\* holds its one listener and one request of each kind was written.
C30_Witness ==
  /\ ncalls = 2 /\ pc[1] = "idle"
  /\ Entries("key", <<"s">>) = <<1>> /\ Entries("prefix", <<"s">>) = <<2>>
  /\ sent[<<"sub", "key", <<"s">>>>] = 1
  /\ sent[<<"sub", "prefix", <<"s">>>>] = 1
  /\ \A k \in SentKeys : k[1] = "unsub" => sent[k] = 0

\* C28: the step by which the dispatch goroutine takes up a well-formed
\* message that is a response whose identifier is not in the table, or that
\* has no identifier and a type other than push, changes neither the table
\* nor the registries nor any listener channel, gives no caller a message,
\* and leaves the goroutine at the next message of the frame or at the read
\* of the next frame; and the step that takes up a message carrying an
\* identifier never starts a fan-out.
C28_StrayMessageIgnored ==
  [][(dpc = "msg" /\ (dframe' # dframe \/ dpc' # dpc) /\ dpc' # "panic") =>
       LET msg == Head(dframe)
       IN /\ (/\ msg.envOK
              /\ \/ msg.rid # 0 /\ requests[msg.rid] = 0
                 \/ msg.rid = 0 /\ msg.ctype # "push")
             => /\ requests' = requests /\ subs' = subs /\ heap' = heap
                /\ chanbuf' = chanbuf /\ pc' = pc /\ cur' = cur /\ dg' = dg
                /\ dframe' = Tail(dframe)
                /\ dpc' = (IF Tail(dframe) = <<>> THEN "read" ELSE "msg")
          /\ msg.rid # 0 =>
               /\ dpc' \notin {"key_fan", "pre_fan"}
               /\ dg' = dg /\ chanbuf' = chanbuf]_vars

\* A stray response took the identifier of the caller's request and was
\* given to the caller; the server's own response, its identifier no longer
\* in the table, was then passed over, and the goroutine reads on.
C28_Witness ==
  /\ last[1].msg.data = "stray" /\ last[1].msg.ctype = "response"
  /\ pc[1] = "idle" /\ ncalls = 1
  /\ wire = <<>> /\ inbox = <<>> /\ dframe = <<>> /\ dpc = "read"
  /\ npush = 1

\* C21: an Authenticate whose challenge request succeeded with data that is
\* no well-formed challenge (the challenge or the salt missing, or not
\* base64, or the data no map) does not end the process: it returns an
\* error, having written its one request and no challenge-response request.
C21_MalformedChallengeIsError ==
  \A c \in Callers :
    /\ (/\ cur[c].op = "Authenticate" /\ cur[c].cmd = "auth_request"
        /\ cur[c].first = "nil" /\ cur[c].mrresp.data # "challenge")
       => pc[c] = "auth_hash"
    /\ (/\ last[c].op = "Authenticate" /\ last[c].cmd = "auth_request"
        /\ last[c].first = "nil")
       => /\ last[c].mrresp.data # "challenge"
          /\ last[c].err # "nil" /\ last[c].nsent = 1

\* C22: against a hub with a password that answers with well-formed
\* challenges, NewClient returns a client exactly when it was given the
\* hub's password, and an error and no client when the password is wrong or
\* absent; without the hub's password no command is begun; on the client
\* made with the password every SetKey and GetKey succeeds.
C22_PasswordGatesClient ==
  /\ (client.st \in {"ok", "nil"} /\ nerr = 0) =>
       (client.st = "ok" <=> client.pw = HubPassword)
  /\ client.pw # HubPassword => ncalls = 0
  /\ (client.pw = HubPassword /\ nerr = 0) =>
       \A c \in Callers :
         last[c].op \in {"SetKey", "GetKey"} => last[c].err = "nil"

\* C24: a GetKey of the key the caller's previous call, a successful SetKey,
\* wrote returns the value written and no error, nothing else writing the
\* key; the request of a SetKey is a write-key command with the key and the
\* data, the request of a GetKey a read-key command with the key; each call
\* writes one request.
C24_GetAfterSet ==
  /\ \A c \in Callers :
       LET r == last[c]
       IN /\ (r.op = "GetKey" /\ r.afterSet) =>
               r.err = "nil" /\ r.ret = r.want /\ r.ret \in KVVals
          /\ r.op \in {"SetKey", "GetKey"} => r.nsent = 1
  /\ \A i \in 1..Len(wire) :
       \E c \in Callers :
         /\ cur[c].rid = wire[i].rid /\ cur[c].sel = wire[i].sel
         /\ cur[c].op = "SetKey" =>
              wire[i].cmd = "kset" /\ wire[i].val = cur[c].val
         /\ cur[c].op = "GetKey" => wire[i].cmd = "kget"

\* SetKey("sA", "v1"), SetKey("s", "v2") and GetKey("s"), which returned
\* "v2".
C24_Witness ==
  /\ pc[1] = "idle" /\ ncalls = 3
  /\ last[1].op = "GetKey" /\ last[1].afterSet
  /\ last[1].sel = <<"s">> /\ last[1].ret = "v2"
  /\ store[<<"s", "A">>] = "v1"

C31_RequestReturns ==
  \A c \in Callers : (pc[c] = "mr_wait") ~> (pc[c] # "mr_wait")

\* C32: a frame of k >= 1 well-formed messages joined by newlines, ended by
\* a newline or not, with an empty line or not, has its k messages routed
\* and leaves the dispatch loop running: the goroutine does not return, and
\* once it has handled every frame sent, the slot subscribed before the
\* first push holds every push sent.
C32_FrameRoutedLoopRunning ==
  /\ dpc # "exit"
  /\ (dpc = "read" /\ inbox = <<>> /\ Len(chanbuf) >= 1)
       => Len(chanbuf[1]) = npush

\* C33: when NewClient has returned nil and an error, nothing of the client
\* it did not return is left running: its connection is closed (or was
\* never made) and its dispatch goroutine has returned.
C33_FailedNewClientLeavesNothing ==
  client.st = "nil" =>
    /\ wsconn = 0 \/ wsconn \in closed
    /\ dpc = "exit"

\* An Unsubscribe that removed its selector's only listener and returned
\* the error of its request.
FailedLastUnsubscribe(q) ==
  /\ q.op = "Unsubscribe"
  /\ q.err \in {"senderr", "cmderr"}
  /\ q.pre = <<q.chn>>

\* C34: for calls made one after another.  The Unsubscribe that removed a
\* selector's last listener and whose unsubscribe request fails, by a
\* failed write or by the server's rejection, returns that error and
\* changes neither registry in returning: the selector is left without
\* listener.  The next Subscribe on that selector finds no listener and
\* decides on a subscribe request, and it returns having written one, or
\* with the error of its write, its slot the selector's only listener.
C34_FailedUnsubscribeNoRollback ==
  [][\A c \in Callers :
       LET r == cur[c]
           p == last[c]
           rejected == pc[c] = "mr_ret" /\ ~r.msg.ok
           unwritten == pc[c] = "send_done" /\ r.err = "senderr"
       IN /\ (/\ r.op = "Unsubscribe" /\ pc'[c] = "idle"
              /\ rejected \/ unwritten)
            => /\ last'[c].err = (IF unwritten THEN "senderr" ELSE "cmderr")
               /\ last'[c].mrerr = (IF unwritten THEN <<"senderr">>
                                    ELSE <<r.msg.code, r.msg.details>>)
               /\ subs' = subs /\ heap' = heap
               /\ EntriesIn(subs', heap', r.reg, r.sel) = <<>>
          /\ (/\ FailedLastUnsubscribe(p)
              /\ pc[c] = "idle" /\ pc'[c] = "sub_set"
              /\ cur'[c].reg = p.reg /\ cur'[c].sel = p.sel)
            => /\ cur'[c].needsAPI
               /\ cur'[c].pre = <<>>
          /\ (/\ FailedLastUnsubscribe(p)
              /\ r.op = "Subscribe" /\ r.reg = p.reg /\ r.sel = p.sel
              /\ pc[c] # "idle" /\ pc'[c] = "idle")
            => /\ last'[c].nsent = 1 \/ last'[c].err = "senderr"
               /\ r.cmd = "sub"
               /\ EntriesIn(subs', heap', r.reg, r.sel) = <<r.chn>>]_vars

\* SubscribeKey("s") returned slot 1, UnsubscribeKey("s", slot 1) returned
\* the server's rejection of its request, and the SubscribeKey("s") that
\* follows has written its subscribe request: the second written for the
\* key, slot 2 its only listener.
C34_Witness ==
  /\ FailedLastUnsubscribe(last[1]) /\ last[1].err = "cmderr"
  /\ last[1].reg = "key" /\ last[1].sel = <<"s">> /\ last[1].nsent = 1
  /\ cur[1].op = "Subscribe" /\ cur[1].reg = "key" /\ cur[1].sel = <<"s">>
  /\ pc[1] = "mr_wait" /\ cur[1].nsent = 1
  /\ sent[<<"sub", "key", <<"s">>>>] = 2
  /\ Entries("key", <<"s">>) = <<2>>

====
